---- MODULE Spec2Model ----
(***************************************************************************)
(* Verification model of the cryptographic toolkit of the repository:      *)
(* the classical codecs and RSA of ciphers.py and the Caesar breaker of    *)
(* caesar_breaker.py.                                                      *)
(*                                                                         *)
(* A Python str is a sequence of code points (naturals); a Python dict is  *)
(* a function.  A call that can raise returns a record [exc, val]: exc is  *)
(* the name of the exception ("" when the call returned) and val the       *)
(* returned value.                                                         *)
(***************************************************************************)
EXTENDS Integers, Sequences, FiniteSets, TLC

VARIABLES
    pc,          \* position of the driver that applies the operations
    cipher,      \* cipher selector of the current exchange
    text,        \* the input text (plaintext of a codec, ciphertext of the breaker)
    key,         \* the key of the current exchange (shape depends on cipher)
    encrypted,   \* result of the encrypt call: [exc, val]
    decrypted,   \* result of the decrypt call: [exc, val]
    bits,        \* rsa_generate_keypair / generate_prime: requested bit length
    num,         \* is_prime: the number under test (generate_prime's candidate)
    round,       \* is_prime: witness rounds completed
    draws,       \* is_prime: calls of random.randrange made so far
    prime,       \* is_prime: the returned value ("none" while running)
    p,           \* rsa_generate_keypair: first prime candidate (0 = not yet)
    q,           \* rsa_generate_keypair: second prime candidate (0 = not yet)
    language,    \* breaker: the language argument / detected language
    break_result,\* breaker: the value returned by the call
    math_args,   \* gcd / extended_gcd / mod_inverse: the two arguments
    math_result, \* gcd / extended_gcd / mod_inverse: the result [exc, val]
    users,       \* AuthSystem: content of the users file (username -> record)
    registered,  \* history: the password each stored username was registered with
    auth_result, \* AuthSystem: the last call and the (success, message) it returned
    wire,        \* connection: bytes sent and not yet read by the peer
    sent,        \* connection: history of the messages passed to send_message
    received,    \* connection: history of the values returned by receive_message
    clients,     \* ChatServer.clients: socket -> username
    handlers,    \* ChatServer.handle_client threads: socket -> position and locals
    last_sent,   \* ChatServer: the messages the last step handed to send_message
    threads      \* threads calling one AuthSystem: thread -> position and locals

codecVars == <<cipher, text, key, encrypted, decrypted>>
primeVars == <<num, round, draws, prime>>
keygenVars == <<bits, p, q>>
breakerVars == <<language, break_result>>
mathVars == <<math_args, math_result>>
authVars == <<users, registered, auth_result>>
framingVars == <<wire, sent, received>>
serverVars == <<clients, handlers, last_sent>>
netVars == <<framingVars, serverVars, threads>>
vars == <<pc, codecVars, primeVars, keygenVars, breakerVars, mathVars, authVars, netVars>>

(***************************************************************************)
(* Bounds of the model                                                     *)
(***************************************************************************)
MaxTextLen == 3     \* longest codec input text
MaxShift == 27      \* Caesar shifts range over -MaxShift..MaxShift
MaxKeyLen == 2      \* longest Vigenere keyword
MaxTransKeyLen == 3 \* longest transposition key
MaxN == 100         \* is_prime is applied to the integers MinN..MaxN
MaxBits == 5        \* rsa_generate_keypair is called with bits in 1..MaxBits
MaxMsgLen == 2      \* longest RSA message
MaxCipherLen == 3   \* longest ciphertext given to the breaker
MaxArg == 12        \* gcd, extended_gcd and mod_inverse take arguments in 0..MaxArg
MaxSalt == 2        \* bcrypt.gensalt() draws a salt in 1..MaxSalt
MaxClock == 1       \* datetime.now() reads a time in 0..MaxClock
MaxSends == 3       \* send_message is called at most MaxSends times on the connection
MaxSockets == 2     \* the server accepts the connections 1..MaxSockets
MaxThreads == 2     \* threads 1..MaxThreads call the one AuthSystem

Ok(v) == [exc |-> "", val |-> v]
Raise(e) == [exc |-> e, val |-> <<>>]
None == [exc |-> "none", val |-> <<>>]

RECURSIVE SeqsUpTo(_, _)
SeqsUpTo(S, n) ==
    IF n = 0 THEN {<<>>}
    ELSE LET shorter == SeqsUpTo(S, n - 1)
         IN  shorter \cup {Append(s, c) : s \in {t \in shorter : Len(t) = n - 1}, c \in S}

(***************************************************************************)
(* Python str predicates and case mappings, for code points below 256      *)
(* (and the three upper-case images that lie above).                       *)
(***************************************************************************)
isupper(c) == c \in 65..90 \/ c \in 192..214 \/ c \in 216..222 \/ c \in {376, 924}

islower(c) == c \in 97..122 \/ c \in {170, 181, 186} \/ c \in 223..246 \/ c \in 248..255

isalpha(c) == isupper(c) \/ islower(c)

isdigit(c) == c \in 48..57 \/ c \in {178, 179, 185}

isspace(c) == c \in 9..13 \/ c \in 28..32 \/ c \in {133, 160}

upper_char(c) ==
    IF c \in 97..122 \/ c \in 224..246 \/ c \in 248..254 THEN <<c - 32>>
    ELSE IF c = 181 THEN <<924>>
    ELSE IF c = 223 THEN <<83, 83>>
    ELSE IF c = 255 THEN <<376>>
    ELSE <<c>>

lower_char(c) ==
    IF c \in 65..90 \/ c \in 192..214 \/ c \in 216..222 THEN c + 32
    ELSE IF c = 376 THEN 255
    ELSE IF c = 924 THEN 956
    ELSE c

RECURSIVE str_upper(_)
str_upper(s) == IF s = <<>> THEN <<>> ELSE upper_char(Head(s)) \o str_upper(Tail(s))

str_lower(s) == [i \in 1..Len(s) |-> lower_char(s[i])]

\* str.isdigit(): every character is a digit and there is at least one
str_isdigit(s) == Len(s) > 0 /\ \A i \in 1..Len(s) : isdigit(s[i])

IsPrintableASCII(s) == \A i \in 1..Len(s) : s[i] \in 32..126

(***************************************************************************)
(* Caesar cipher                                                           *)
(***************************************************************************)
\* a plausible slip: the lower-case branch re-based on 'A'
caesar_encrypt_char_wrongbase(char, shift) ==
    IF isupper(char) THEN ((char + shift - 65) % 26) + 65
    ELSE IF islower(char) THEN ((char + shift - 65) % 26) + 97
    ELSE char

\* body of the loop of caesar_encrypt
caesar_encrypt_char(char, shift) ==
    IF isupper(char) THEN ((char + shift - 65) % 26) + 65
    ELSE IF islower(char) THEN ((char + shift - 97) % 26) + 97
    ELSE char

caesar_encrypt(txt, shift) == [i \in 1..Len(txt) |-> caesar_encrypt_char(txt[i], shift)]

caesar_decrypt(txt, shift) == caesar_encrypt(txt, -shift)

(***************************************************************************)
(* Vigenere cipher                                                         *)
(***************************************************************************)
RECURSIVE vigenere_encrypt_loop(_, _, _, _, _)
\* a plausible slip: key_index advanced on every character
vigenere_encrypt_loop_everychar(txt, k, i, key_index, result) ==
    IF i > Len(txt) THEN Ok(result)
    ELSE LET char == txt[i] IN
         IF isalpha(char) THEN
            IF Len(k) = 0 THEN Raise("ZeroDivisionError")
            ELSE LET shift == k[(key_index % Len(k)) + 1] - 65
                     out == IF isupper(char) THEN ((char + shift - 65) % 26) + 65
                            ELSE ((char + shift - 97) % 26) + 97
                 IN  vigenere_encrypt_loop(txt, k, i + 1, key_index + 1, Append(result, out))
         ELSE vigenere_encrypt_loop(txt, k, i + 1, key_index + 1, Append(result, char))

vigenere_encrypt_loop(txt, k, i, key_index, result) ==
    IF i > Len(txt) THEN Ok(result)
    ELSE LET char == txt[i] IN
         IF isalpha(char) THEN
            IF Len(k) = 0 THEN Raise("ZeroDivisionError")
            ELSE LET shift == k[(key_index % Len(k)) + 1] - 65
                     out == IF isupper(char) THEN ((char + shift - 65) % 26) + 65
                            ELSE ((char + shift - 97) % 26) + 97
                 IN  vigenere_encrypt_loop(txt, k, i + 1, key_index + 1, Append(result, out))
         ELSE vigenere_encrypt_loop(txt, k, i + 1, key_index, Append(result, char))

\* a plausible slip: the text case-normalised along with the key
vigenere_encrypt_uppertext(txt, k) ==
    vigenere_encrypt_loop(str_upper(txt), str_upper(k), 1, 0, <<>>)

vigenere_encrypt(txt, k) == vigenere_encrypt_loop(txt, str_upper(k), 1, 0, <<>>)

RECURSIVE vigenere_decrypt_loop(_, _, _, _, _)
vigenere_decrypt_loop(txt, k, i, key_index, result) ==
    IF i > Len(txt) THEN Ok(result)
    ELSE LET char == txt[i] IN
         IF isalpha(char) THEN
            IF Len(k) = 0 THEN Raise("ZeroDivisionError")
            ELSE LET shift == k[(key_index % Len(k)) + 1] - 65
                     out == IF isupper(char) THEN ((char - shift - 65) % 26) + 65
                            ELSE ((char - shift - 97) % 26) + 97
                 IN  vigenere_decrypt_loop(txt, k, i + 1, key_index + 1, Append(result, out))
         ELSE vigenere_decrypt_loop(txt, k, i + 1, key_index, Append(result, char))

\* a plausible slip: decrypt forgets to case-normalise the key
vigenere_decrypt_rawkey(txt, k) == vigenere_decrypt_loop(txt, k, 1, 0, <<>>)

vigenere_decrypt(txt, k) == vigenere_decrypt_loop(txt, str_upper(k), 1, 0, <<>>)

(***************************************************************************)
(* Substitution cipher                                                     *)
(***************************************************************************)
\* string.ascii_uppercase and the insertion order A, a, B, b, ... of the key dict
ascii_uppercase == [i \in 1..26 |-> 64 + i]

\* random.shuffle(x): for i from len(x) - 1 down to 1, x[i] is swapped with
\* x[j], j = randbelow[i] drawn from 0..i (indices zero-based as in the code)
RECURSIVE shuffle_loop(_, _, _)
shuffle_loop(x, randbelow, i) ==
    IF i < 1 THEN x
    ELSE LET j == randbelow[i]
         IN  shuffle_loop([x EXCEPT ![i + 1] = x[j + 1], ![j + 1] = x[i + 1]], randbelow, i - 1)

random_shuffle(x, randbelow) == shuffle_loop(x, randbelow, Len(x) - 1)

\* a plausible slip: the lower-case entry keeps the upper-case letter
generate_substitution_key_upper(shuffled) ==
    [c \in (65..90) \cup (97..122) |->
        IF c <= 90 THEN shuffled[c - 64] ELSE shuffled[c - 96]]

\* the dict built from one outcome `shuffled` of random.shuffle
generate_substitution_key(shuffled) ==
    [c \in (65..90) \cup (97..122) |->
        IF c <= 90 THEN shuffled[c - 64] ELSE lower_char(shuffled[c - 96])]

RECURSIVE substitution_encrypt_loop(_, _, _, _)
substitution_encrypt_loop(txt, k, i, result) ==
    IF i > Len(txt) THEN Ok(result)
    ELSE LET char == txt[i] IN
         IF isalpha(char) THEN
            IF char \in DOMAIN k
            THEN substitution_encrypt_loop(txt, k, i + 1, Append(result, k[char]))
            ELSE Raise("KeyError")
         ELSE substitution_encrypt_loop(txt, k, i + 1, Append(result, char))

substitution_encrypt(txt, k) == substitution_encrypt_loop(txt, k, 1, <<>>)

\* position of a dict key in insertion order (A, a, B, b, ..., Z, z)
insertion_rank(c) == IF c <= 90 THEN 2 * (c - 65) ELSE 2 * (c - 97) + 1

\* a plausible slip: the forward map used where the reverse map is needed
reverse_key_forward(k) == k

\* {v: k for k, v in key.items()}: a later item overwrites an earlier one
reverse_key(k) ==
    LET values == {k[c] : c \in DOMAIN k}
    IN  [v \in values |->
            CHOOSE c \in DOMAIN k :
                /\ k[c] = v
                /\ \A c2 \in DOMAIN k :
                      k[c2] = v => insertion_rank(c2) <= insertion_rank(c)]

RECURSIVE substitution_decrypt_loop(_, _, _, _)
substitution_decrypt_loop(txt, rk, i, result) ==
    IF i > Len(txt) THEN Ok(result)
    ELSE LET char == txt[i] IN
         IF isalpha(char) THEN
            IF char \in DOMAIN rk
            THEN substitution_decrypt_loop(txt, rk, i + 1, Append(result, rk[char]))
            ELSE Raise("KeyError")
         ELSE substitution_decrypt_loop(txt, rk, i + 1, Append(result, char))

substitution_decrypt(txt, k) == substitution_decrypt_loop(txt, reverse_key(k), 1, <<>>)

(***************************************************************************)
(* Columnar transposition cipher                                           *)
(***************************************************************************)
\* str(n) for n >= 0: the decimal digits of n
RECURSIVE str_int(_)
str_int(n) == IF n < 10 THEN <<48 + n>> ELSE Append(str_int(n \div 10), 48 + (n % 10))

\* sorted(list(key)): insertion of each character after the ones <= it
RECURSIVE insert_sorted(_, _)
insert_sorted(s, c) ==
    IF s = <<>> THEN <<c>>
    ELSE IF c < Head(s) THEN <<c>> \o s
    ELSE <<Head(s)>> \o insert_sorted(Tail(s), c)

RECURSIVE sorted_chars(_)
sorted_chars(s) ==
    IF s = <<>> THEN <<>> ELSE insert_sorted(sorted_chars(SubSeq(s, 1, Len(s) - 1)), s[Len(s)])

\* list.index(c): zero-based position of the first occurrence (c occurs in s)
list_index(s, c) == (CHOOSE i \in 1..Len(s) : s[i] = c /\ \A j \in 1..(i - 1) : s[j] # c) - 1

RECURSIVE join_ranks(_, _, _)
join_ranks(k, ko, i) ==
    IF i > Len(k) THEN <<>>
    ELSE str_int(list_index(ko, k[i]) + 1) \o join_ranks(k, ko, i + 1)

\* the key as the digit string both directions work with
transposition_numeric_key(k) ==
    IF ~str_isdigit(k) THEN join_ranks(k, sorted_chars(k), 1) ELSE k

\* sorted(enumerate(key), key=lambda x: x[1]): zero-based column indices,
\* by key character, equal characters in position order (the sort is stable)
RECURSIVE insert_column(_, _, _)
insert_column(order, k, col) ==
    IF order = <<>> THEN <<col>>
    ELSE IF k[col + 1] < k[Head(order) + 1] THEN <<col>> \o order
    ELSE <<Head(order)>> \o insert_column(Tail(order), k, col)

RECURSIVE column_order_upto(_, _)
column_order_upto(k, n) ==
    IF n = 0 THEN <<>> ELSE insert_column(column_order_upto(k, n - 1), k, n - 1)

column_order(k) == column_order_upto(k, Len(k))

\* math.ceil(a / b) for a >= 0, b > 0
ceil_div(a, b) == (a + b - 1) \div b

X == 88

\* a plausible slip: one 'X' too few appended
transposition_pad_short(txt, num_cols, num_rows) ==
    txt \o [i \in 1..(num_cols * num_rows - Len(txt) - 1) |-> X]

\* text + 'X' * (num_cols * num_rows - len(text))
transposition_pad(txt, num_cols, num_rows) ==
    txt \o [i \in 1..(num_cols * num_rows - Len(txt)) |-> X]

RECURSIVE read_columns(_, _, _, _, _)
read_columns(padded, order, num_cols, num_rows, i) ==
    IF i > Len(order) THEN <<>>
    ELSE [row \in 1..num_rows |-> padded[(row - 1) * num_cols + order[i] + 1]]
         \o read_columns(padded, order, num_cols, num_rows, i + 1)

transposition_encrypt(txt, k) ==
    LET nk == transposition_numeric_key(k)
        num_cols == Len(nk)
    IN  IF num_cols = 0 THEN Raise("ZeroDivisionError")
        ELSE LET num_rows == ceil_div(Len(txt), num_cols)
                 padded == transposition_pad(txt, num_cols, num_rows)
             IN  IF Len(padded) < num_cols * num_rows THEN Raise("IndexError")
                 ELSE Ok(read_columns(padded, column_order(nk), num_cols, num_rows, 1))

\* position (one-based) in key order of column col
order_position(order, col) == CHOOSE i \in 1..Len(order) : order[i] = col

\* a plausible slip: the trailing filler is kept
rstrip_X_none(s) == s

\* str.rstrip('X')
RECURSIVE rstrip_X(_)
rstrip_X(s) ==
    IF s # <<>> /\ s[Len(s)] = X THEN rstrip_X(SubSeq(s, 1, Len(s) - 1)) ELSE s

transposition_decrypt(txt, k) ==
    LET nk == transposition_numeric_key(k)
        num_cols == Len(nk)
    IN  IF num_cols = 0 THEN Raise("ZeroDivisionError")
        ELSE LET num_rows == ceil_div(Len(txt), num_cols)
                 order == column_order(nk)
                 \* grid[row][col] = text[text_index], columns filled in key order
                 grid == [cell \in 1..(num_rows * num_cols) |->
                            LET row == (cell - 1) \div num_cols
                                col == (cell - 1) % num_cols
                            IN  (order_position(order, col) - 1) * num_rows + row + 1]
             IN  IF num_rows * num_cols > Len(txt) THEN Raise("IndexError")
                 ELSE Ok(rstrip_X([cell \in 1..(num_rows * num_cols) |-> txt[grid[cell]]]))

(***************************************************************************)
(* RSA: primality test, key generation, byte-wise codec                    *)
(***************************************************************************)
\* pow(base, exp, mod) for exp >= 0 and mod > 0
RECURSIVE pow_mod(_, _, _)
pow_mod(base, exp, mod) ==
    IF exp = 0 THEN 1 % mod
    ELSE LET half == pow_mod(base, exp \div 2, mod)
             sq == (half * half) % mod
         IN  IF exp % 2 = 1 THEN (sq * (base % mod)) % mod ELSE sq

\* number of witness rounds: the default of the parameter k of is_prime
DefaultRounds == 5

\* write m = 2^r * d with d odd, starting from r = 0, d = m: <<r, d>>
RECURSIVE decompose(_, _)
decompose(r, d) == IF d % 2 = 0 THEN decompose(r + 1, d \div 2) ELSE <<r, d>>

\* the inner loop "for _ in range(r - 1)": TRUE when it breaks on x = m - 1,
\* FALSE when it runs out (the else clause, return False)
RECURSIVE squaring_loop(_, _, _)
squaring_loop(x, m, left) ==
    IF left <= 0 THEN FALSE
    ELSE LET x2 == pow_mod(x, 2, m)
         IN  IF x2 = m - 1 THEN TRUE ELSE squaring_loop(x2, m, left - 1)

\* a plausible slip: the squaring loop runs r - 2 times
witness_round_short(m, a) ==
    LET rd == decompose(0, m - 1)
        x == pow_mod(a, rd[2], m)
    IN  IF x = 1 \/ x = m - 1 THEN TRUE ELSE squaring_loop(x, m, rd[1] - 2)

\* one iteration of the witness loop with base a: TRUE when the loop goes on
\* to the next round, FALSE when is_prime returns False
witness_round(m, a) ==
    LET rd == decompose(0, m - 1)
        x == pow_mod(a, rd[2], m)
    IN  IF x = 1 \/ x = m - 1 THEN TRUE ELSE squaring_loop(x, m, rd[1] - 1)

RECURSIVE pow2(_)
pow2(b) == IF b = 0 THEN 1 ELSE 2 * pow2(b - 1)

\* x | (1 << b)
set_bit(x, b) == IF (x \div pow2(b)) % 2 = 1 THEN x ELSE x + pow2(b)

\* a plausible slip: only the low bit is forced
force_bottom_bit_only(r, nbits) == set_bit(r, 0)

\* num |= (1 << bits - 1) | 1
force_top_and_bottom_bit(r, nbits) == set_bit(set_bit(r, nbits - 1), 0)

RECURSIVE gcd(_, _)
\* while b: a, b = b, a % b (the remainder is computed once per turn)
gcd(a, b) == IF b # 0 THEN CHOOSE g \in {gcd(b, r) : r \in {a % b}} : TRUE ELSE a

\* <<gcd, x, y>>
RECURSIVE extended_gcd(_, _)
\* a plausible slip: the quotient b // a is left out of the back-substitution
extended_gcd_noquotient(a, b) ==
    IF a = 0 THEN <<b, 0, 1>>
    ELSE LET rec == extended_gcd(b % a, a)
         IN  <<rec[1], rec[3] - rec[2], rec[2]>>

\* gcd_val, x1, y1 = extended_gcd(b % a, a): the recursive call is made once
\* and its triple bound to rec
extended_gcd(a, b) ==
    IF a = 0 THEN <<b, 0, 1>>
    ELSE CHOOSE r \in {<<rec[1], rec[3] - (b \div a) * rec[2], rec[2]>> :
                          rec \in {extended_gcd(m, a) : m \in {b % a}}} : TRUE

\* a plausible slip: the wrong Bezout coefficient is unpacked
mod_inverse_wrongcoef(e, phi) ==
    LET g == extended_gcd(e, phi)
    IN  IF g[1] # 1 THEN Raise("ValueError")
        ELSE IF phi = 0 THEN Raise("ZeroDivisionError")
        ELSE Ok(g[3] % phi)

mod_inverse(e, phi) ==
    LET g == extended_gcd(e, phi)
    IN  IF g[1] # 1 THEN Raise("ValueError")
        ELSE IF phi = 0 THEN Raise("ZeroDivisionError")
        ELSE Ok(g[2] % phi)

\* the first public exponent tried
PublicExponent == 65537

\* e = 3; while gcd(e, phi) != 1: e += 2
RECURSIVE next_coprime_odd(_, _)
next_coprime_odd(e, phi) == IF gcd(e, phi) # 1 THEN next_coprime_odd(e + 2, phi) ELSE e

choose_public_exponent(phi) ==
    IF gcd(PublicExponent, phi) # 1 THEN next_coprime_odd(3, phi) ELSE PublicExponent

\* the part of rsa_generate_keypair after the two primes are drawn
rsa_keypair_from_primes(pp, qq) ==
    LET nn == pp * qq
        phi == (pp - 1) * (qq - 1)
        e == choose_public_exponent(phi)
        d == mod_inverse(e, phi)
    IN  IF d.exc # "" THEN d
        ELSE Ok([public_key |-> <<e, nn>>, private_key |-> <<d.val, nn>>])

\* str.encode('utf-8'), for code points below 2048
RECURSIVE utf8_encode(_)
utf8_encode(s) ==
    IF s = <<>> THEN <<>>
    ELSE LET c == Head(s)
         IN  (IF c < 128 THEN <<c>> ELSE <<192 + (c \div 64), 128 + (c % 64)>>)
             \o utf8_encode(Tail(s))

rsa_encrypt(message, public_key) ==
    LET e == public_key[1]
        nn == public_key[2]
        message_bytes == utf8_encode(message)
    IN  [i \in 1..Len(message_bytes) |-> pow_mod(message_bytes[i], e, nn)]

IsCont(bs, i) == i <= Len(bs) /\ bs[i] \in 128..191

\* bytes.decode('utf-8'), strict
RECURSIVE utf8_decode(_, _, _)
utf8_decode(bs, i, out) ==
    IF i > Len(bs) THEN Ok(out)
    ELSE LET b0 == bs[i] IN
         IF b0 < 128 THEN utf8_decode(bs, i + 1, Append(out, b0))
         ELSE IF b0 \in 194..223 /\ IsCont(bs, i + 1)
              THEN utf8_decode(bs, i + 2, Append(out, (b0 - 192) * 64 + (bs[i + 1] - 128)))
         ELSE IF /\ b0 \in 224..239 /\ IsCont(bs, i + 1) /\ IsCont(bs, i + 2)
                 /\ (b0 = 224 => bs[i + 1] >= 160)
                 /\ (b0 = 237 => bs[i + 1] <= 159)
              THEN utf8_decode(bs, i + 3,
                     Append(out, (b0 - 224) * 4096 + (bs[i + 1] - 128) * 64 + (bs[i + 2] - 128)))
         ELSE IF /\ b0 \in 240..244
                 /\ IsCont(bs, i + 1) /\ IsCont(bs, i + 2) /\ IsCont(bs, i + 3)
                 /\ (b0 = 240 => bs[i + 1] >= 144)
                 /\ (b0 = 244 => bs[i + 1] <= 143)
              THEN utf8_decode(bs, i + 4,
                     Append(out, (b0 - 240) * 262144 + (bs[i + 1] - 128) * 4096
                                 + (bs[i + 2] - 128) * 64 + (bs[i + 3] - 128)))
         ELSE Raise("UnicodeDecodeError")

rsa_decrypt(encrypted_message, private_key) ==
    LET d == private_key[1]
        nn == private_key[2]
        decrypted_bytes == [i \in 1..Len(encrypted_message) |->
                               pow_mod(encrypted_message[i], d, nn)]
    IN  IF \E i \in 1..Len(decrypted_bytes) : decrypted_bytes[i] > 255
        THEN Raise("ValueError")        \* bytes() takes values in range(256)
        ELSE utf8_decode(decrypted_bytes, 1, <<>>)

(***************************************************************************)
(* Caesar breaker (caesar_breaker.py)                                      *)
(*                                                                         *)
(* A Python float is modelled in fixed point: a score is a record          *)
(* [inf, v] where v counts units of 1/Scale; float('inf') has inf = TRUE.  *)
(* Frequencies are kept in hundredths of a percent, as the tables give     *)
(* them with two decimals.                                                 *)
(***************************************************************************)
Scale == 10000

Inf == [inf |-> TRUE, v |-> 0]
Finite(x) == [inf |-> FALSE, v |-> x]

\* a < b on floats
float_less(a, b) == ~a.inf /\ (b.inf \/ a.v < b.v)

\* a - k for a float a and an integer k
float_minus_int(a, k) == IF a.inf THEN Inf ELSE Finite(a.v - k * Scale)

\* letter frequencies in hundredths of a percent, 'A' .. 'Z'
ENGLISH_FREQ ==
    <<817, 129, 278, 425, 1270, 223, 202, 609, 697, 15, 77, 403, 241, 675, 751, 193,
      10, 599, 633, 906, 276, 98, 236, 15, 197, 7>>

FRENCH_FREQ ==
    <<764, 90, 326, 367, 1472, 106, 97, 74, 746, 45, 5, 546, 297, 710, 580, 302, 136,
      655, 795, 724, 631, 163, 4, 39, 31, 12>>

ENGLISH_WORDS ==
    {<<97>>, <<97, 98, 111, 117, 116>>, <<97, 102, 116, 101, 114>>, <<97, 108, 108>>, <<97,
     108, 115, 111>>, <<97, 110>>, <<97, 110, 100>>, <<97, 110, 121>>, <<97, 115>>, <<97,
     116>>, <<98, 97, 99, 107>>, <<98, 101>>, <<98, 101, 99, 97, 117, 115, 101>>, <<98, 117,
     116>>, <<98, 121>>, <<99, 97, 110>>, <<99, 111, 109, 101>>, <<99, 111, 117, 108, 100>>,
     <<100, 97, 121>>, <<100, 111>>, <<101, 118, 101, 110>>, <<102, 105, 114, 115, 116>>,
     <<102, 111, 114>>, <<102, 114, 111, 109>>, <<103, 101, 116>>, <<103, 105, 118, 101>>,
     <<103, 111>>, <<103, 111, 111, 100>>, <<104, 97, 118, 101>>, <<104, 101>>, <<104, 101,
     114>>, <<104, 105, 109>>, <<104, 105, 115>>, <<104, 111, 119>>, <<105>>, <<105, 102>>,
     <<105, 110>>, <<105, 110, 116, 111>>, <<105, 116>>, <<105, 116, 115>>, <<106, 117, 115,
     116>>, <<107, 110, 111, 119>>, <<108, 105, 107, 101>>, <<108, 111, 111, 107>>, <<109,
     97, 107, 101>>, <<109, 101>>, <<109, 111, 115, 116>>, <<109, 121>>, <<110, 101, 119>>,
     <<110, 111>>, <<110, 111, 116>>, <<110, 111, 119>>, <<111, 102>>, <<111, 110>>, <<111,
     110, 101>>, <<111, 110, 108, 121>>, <<111, 114>>, <<111, 116, 104, 101, 114>>, <<111,
     117, 114>>, <<111, 117, 116>>, <<111, 118, 101, 114>>, <<112, 101, 111, 112, 108, 101>>,
     <<115, 97, 121>>, <<115, 101, 101>>, <<115, 104, 101>>, <<115, 111>>, <<115, 111, 109,
     101>>, <<116, 97, 107, 101>>, <<116, 104, 97, 110>>, <<116, 104, 97, 116>>, <<116, 104,
     101>>, <<116, 104, 101, 105, 114>>, <<116, 104, 101, 109>>, <<116, 104, 101, 110>>,
     <<116, 104, 101, 114, 101>>, <<116, 104, 101, 115, 101>>, <<116, 104, 101, 121>>, <<116,
     104, 105, 110, 107>>, <<116, 104, 105, 115>>, <<116, 105, 109, 101>>, <<116, 111>>,
     <<116, 119, 111>>, <<117, 112>>, <<117, 115>>, <<117, 115, 101>>, <<119, 97, 110, 116>>,
     <<119, 97, 121>>, <<119, 101>>, <<119, 101, 108, 108>>, <<119, 104, 97, 116>>, <<119,
     104, 101, 110>>, <<119, 104, 105, 99, 104>>, <<119, 104, 111>>, <<119, 105, 108, 108>>,
     <<119, 105, 116, 104>>, <<119, 111, 114, 107>>, <<119, 111, 117, 108, 100>>, <<121, 101,
     97, 114>>, <<121, 111, 117>>, <<121, 111, 117, 114>>}

FRENCH_WORDS ==
    {<<97, 108, 108, 101, 114>>, <<97, 117>>, <<97, 117, 116, 114, 101>>, <<97, 118, 101,
     99>>, <<97, 118, 111, 105, 114>>, <<98, 105, 101, 110>>, <<99, 101>>, <<99, 111, 109,
     109, 101>>, <<100, 97, 110, 115>>, <<100, 101>>, <<100, 105, 114, 101>>, <<100, 111,
     110, 116>>, <<100, 117>>, <<101, 108, 108, 101>>, <<101, 110>>, <<101, 116>>, <<102, 97,
     105, 114, 101>>, <<105, 108>>, <<106, 101>>, <<108, 101>>, <<108, 101, 117, 114>>,
     <<108, 117, 105>>, <<109, 97, 105, 115>>, <<109, 101>>, <<109, 111, 110>>, <<110, 101>>,
     <<110, 111, 116, 114, 101>>, <<110, 111, 117, 115>>, <<111, 110>>, <<111, 249>>, <<112,
     97, 114>>, <<112, 97, 115>>, <<112, 108, 117, 115>>, <<112, 111, 117, 114>>, <<112, 111,
     117, 118, 111, 105, 114>>, <<113, 117, 101>>, <<113, 117, 105>>, <<115, 97, 110, 115>>,
     <<115, 101>>, <<115, 111, 110>>, <<115, 117, 114>>, <<116, 111, 117, 116>>, <<117,
     110>>, <<118, 111, 105, 114>>, <<118, 111, 117, 115>>, <<121>>, <<224>>, <<234, 116,
     114, 101>>}

\* Counter(char for char in text_upper if char.isalpha()).get(letter, 0)
letter_count(text_upper, letter) == Cardinality({i \in 1..Len(text_upper) : text_upper[i] = letter})

\* sum(letter_count.values())
total_letter_count(text_upper) == Cardinality({i \in 1..Len(text_upper) : isalpha(text_upper[i])})

\* ((observed_freq - expected_freq) ** 2) / expected_freq, in units of 1/Scale,
\* with expected_freq = freq / 100 * total_letters and freq in hundredths of a
\* percent: (10000*o - f*t)^2 / (10000*f*t), times Scale = 10000
\* The quotient diff^2 / expected is taken in parts (diff = quot*expected + rem,
\* and rem^2 through expected - rem when rem is the larger half) so that no
\* intermediate product leaves 32 bits for texts of up to 60 letters.
chi_squared_term(observed_freq, freq, total_letters) ==
    LET expected == freq * total_letters
        diff == IF 10000 * observed_freq < expected
                THEN expected - 10000 * observed_freq
                ELSE 10000 * observed_freq - expected
        quot == diff \div expected
        rem == diff % expected
        small == IF 2 * rem > expected THEN expected - rem ELSE rem
        rem_squared == IF 2 * rem > expected
                       THEN expected - 2 * small + ((small * small) \div expected)
                       ELSE (small * small) \div expected
    IN  quot * diff + quot * rem + rem_squared

RECURSIVE chi_squared_sum(_, _, _, _)
chi_squared_sum(text_upper, freq_table, total_letters, i) ==
    IF i > 26 THEN 0
    ELSE (IF freq_table[i] * total_letters > 0
          THEN chi_squared_term(letter_count(text_upper, 64 + i), freq_table[i], total_letters)
          ELSE 0)
         + chi_squared_sum(text_upper, freq_table, total_letters, i + 1)

calculate_frequency_score(txt, lang) ==
    LET freq_table == IF lang = "english" THEN ENGLISH_FREQ ELSE FRENCH_FREQ
        text_upper == str_upper(txt)
        total_letters == total_letter_count(text_upper)
    IN  IF total_letters = 0 THEN Inf
        ELSE Finite(chi_squared_sum(text_upper, freq_table, total_letters, 1))

\* str.split(): the maximal runs of non-whitespace characters
RECURSIVE split_loop(_, _, _, _)
split_loop(s, i, word, words) ==
    IF i > Len(s) THEN (IF word = <<>> THEN words ELSE Append(words, word))
    ELSE IF isspace(s[i])
         THEN split_loop(s, i + 1, <<>>, IF word = <<>> THEN words ELSE Append(words, word))
         ELSE split_loop(s, i + 1, Append(word, s[i]), words)

str_split(s) == split_loop(s, 1, <<>>, <<>>)

count_dictionary_words(txt, lang) ==
    LET word_set == IF lang = "english" THEN ENGLISH_WORDS ELSE FRENCH_WORDS
        words == str_split(str_lower(txt))
    IN  Cardinality({i \in 1..Len(words) : words[i] \in word_set})

detect_language(txt) ==
    IF float_less(calculate_frequency_score(txt, "english"),
                  calculate_frequency_score(txt, "french"))
    THEN "english" ELSE "french"

\* a plausible slip: the shift is added instead of subtracted
caesar_decrypt_char_added(char, shift) ==
    IF isupper(char) THEN ((char + shift - 65) % 26) + 65
    ELSE IF islower(char) THEN ((char + shift - 97) % 26) + 97
    ELSE char

\* body of the loop of caesar_decrypt_with_shift
caesar_decrypt_char(char, shift) ==
    IF isupper(char) THEN ((char - shift - 65) % 26) + 65
    ELSE IF islower(char) THEN ((char - shift - 97) % 26) + 97
    ELSE char

caesar_decrypt_with_shift(txt, shift) ==
    [i \in 1..Len(txt) |-> caesar_decrypt_char(txt[i], shift)]

\* a plausible slip: the word bonus is added to the score
candidate_bonus_added(encrypted_text, lang, shift) ==
    LET decrypted_text == caesar_decrypt_with_shift(encrypted_text, shift)
        freq_score == calculate_frequency_score(decrypted_text, lang)
        word_count == count_dictionary_words(decrypted_text, lang)
    IN  [shift |-> shift, text |-> decrypted_text, freq_score |-> freq_score,
         word_count |-> word_count,
         combined_score |-> float_minus_int(freq_score, -(word_count * 10))]

\* one candidate of the scan: the entry appended to `results`
candidate(encrypted_text, lang, shift) ==
    LET decrypted_text == caesar_decrypt_with_shift(encrypted_text, shift)
        freq_score == calculate_frequency_score(decrypted_text, lang)
        word_count == count_dictionary_words(decrypted_text, lang)
    IN  [shift |-> shift, text |-> decrypted_text, freq_score |-> freq_score,
         word_count |-> word_count,
         combined_score |-> float_minus_int(freq_score, word_count * 10)]

\* the scan "for shift in range(26)": best = <<best_score, best_shift, best_decryption>>
RECURSIVE scan_shifts(_, _, _)
scan_shifts(results, i, best) ==
    IF i > Len(results) THEN best
    ELSE IF float_less(results[i].combined_score, best[1])
         THEN scan_shifts(results, i + 1,
                          <<results[i].combined_score, results[i].shift, results[i].text>>)
         ELSE scan_shifts(results, i + 1, best)

\* sorted(results, key=lambda x: x['combined_score'])[0]: the sort is stable,
\* so the first entry is the earliest one that no entry is less than
sorted_first(results) ==
    LET i == CHOOSE j \in 1..Len(results) :
                /\ \A m \in 1..Len(results) :
                      ~float_less(results[m].combined_score, results[j].combined_score)
                /\ \A m \in 1..(j - 1) :
                      float_less(results[j].combined_score, results[m].combined_score)
    IN  results[i]

\* a plausible slip: the division is made without the "if words_in_best" guard
confidence_unguarded(word_count, words_in_best) ==
    IF Len(words_in_best) = 0 THEN Raise("ZeroDivisionError")
    ELSE Ok((word_count * 100 * Scale) \div Len(words_in_best))

\* (word_count / len(words_in_best) * 100) if words_in_best else 0, in units of 1/Scale
confidence_of(word_count, words_in_best) ==
    IF Len(words_in_best) # 0
    THEN Ok((word_count * 100 * Scale) \div Len(words_in_best))
    ELSE Ok(0)

\* the part of break_caesar_frequency that works on the finished list `results`
break_caesar_from_results(results) ==
    LET best == scan_shifts(results, 1, <<Inf, 0, <<>> >>)
        best_shift == best[2]
        best_decryption == best[3]
        words_in_best == str_split(best_decryption)
        confidence == confidence_of(sorted_first(results).word_count, words_in_best)
    IN  IF confidence.exc # "" THEN confidence
        ELSE Ok([text |-> best_decryption, shift |-> best_shift,
                 confidence |-> confidence.val])

\* (the list of the 26 candidates is bound once, then ranked)
break_caesar_frequency(encrypted_text, lang) ==
    LET all == {[i \in 1..26 |-> candidate(encrypted_text, lang, i - 1)]}
    IN  CHOOSE r \in {break_caesar_from_results(results) : results \in all} : TRUE

break_caesar_auto(encrypted_text) ==
    LET detected_language == detect_language(encrypted_text)
        r == break_caesar_frequency(encrypted_text, detected_language)
    IN  IF r.exc # "" THEN r
        ELSE Ok([text |-> r.val.text, shift |-> r.val.shift,
                 confidence |-> r.val.confidence, language |-> detected_language])

break_caesar_brute_force(encrypted_text) ==
    [i \in 1..26 |-> <<i - 1, caesar_decrypt_with_shift(encrypted_text, i - 1)>>]

(***************************************************************************)
(* The codec exchange: one text is encrypted with a key and the result     *)
(* decrypted with the same key (ciphers.py test_caesar .. test_transposition *)
(* and protocol.py encrypt_message / decrypt_message).                     *)
(***************************************************************************)
TextChars == {53, 65, 88, 122, 233}     \* '5', 'A', 'X', 'z', e-acute
Texts == SeqsUpTo(TextChars, MaxTextLen)

Shifts == (-MaxShift)..MaxShift

KeyLetters == {65, 90, 98}                  \* 'A', 'Z', 'b'
VigenereKeys == SeqsUpTo(KeyLetters, MaxKeyLen)

\* shuffled alphabets i -> a*i + b; a permutation exactly when a is coprime to 26
Multipliers == {1, 2, 3, 13, 25}
MaxOffset == 2
ShuffledAlphabet(a, b) == [i \in 1..26 |-> 65 + ((a * (i - 1) + b) % 26)]
SubstitutionKeys ==
    {generate_substitution_key(ShuffledAlphabet(a, b)) : a \in Multipliers, b \in 0..MaxOffset}

\* draws of the random source during one shuffle: j = (a*(i div 2) + b) mod (i + 1)
MaxStride == 2
RandomDraws ==
    {[i \in 1..25 |-> (a * (i \div 2) + b) % (i + 1)] : a \in 0..MaxStride, b \in 0..MaxOffset}

TransKeyChars == {49, 50, 65}               \* '1', '2', 'A'
\* a word of ten distinct letters, "ABCDEFGHIJ": the shortest kind of word
\* whose ranks do not all fit one digit
TenLetterWord == [i \in 1..10 |-> 64 + i]
TranspositionKeys == SeqsUpTo(TransKeyChars, MaxTransKeyLen) \cup {TenLetterWord}

NoPrime == /\ num = 0 /\ round = 0 /\ draws = 0 /\ prime = "none"
NoKeygen == /\ bits = 0 /\ p = 0 /\ q = 0
NoBreaker == /\ language = "none" /\ break_result = None
NoCodec == /\ cipher = "none" /\ text = <<>> /\ key = 0 /\ encrypted = None /\ decrypted = None
NoMath == /\ math_args = <<0, 0>> /\ math_result = None
\* no AuthSystem call made yet
NoCall == [op |-> "none", username |-> <<>>, password |-> <<>>, success |-> FALSE,
           message |-> <<>>]
NoAuth == /\ users = <<>> /\ registered = <<>> /\ auth_result = NoCall

NoFraming == /\ wire = <<>> /\ sent = <<>> /\ received = <<>>

NoServer == /\ clients = <<>> /\ handlers = <<>> /\ last_sent = {}

NoNet == /\ NoFraming /\ NoServer /\ threads = <<>>

Init ==
    /\ pc = "start"
    /\ text \in Texts
    /\ cipher = "none" /\ key = 0 /\ encrypted = None /\ decrypted = None
    /\ NoPrime /\ NoKeygen /\ NoBreaker /\ NoMath /\ NoAuth /\ NoNet

Encrypt(name, k, r) ==
    /\ pc = "start"
    /\ cipher' = name
    /\ key' = k
    /\ encrypted' = r
    /\ pc' = IF r.exc = "" THEN "encrypted" ELSE "raised"
    /\ UNCHANGED <<text, decrypted, primeVars, keygenVars, breakerVars, mathVars, authVars, netVars>>
Decrypt(name, r) ==
    /\ pc = "encrypted"
    /\ cipher = name
    /\ decrypted' = r
    /\ pc' = IF r.exc = "" THEN "decrypted" ELSE "raised"
    /\ UNCHANGED <<cipher, text, key, encrypted, primeVars, keygenVars, breakerVars, mathVars, authVars, netVars>>
CaesarEncrypt == \E shift \in Shifts : Encrypt("caesar", shift, Ok(caesar_encrypt(text, shift)))

CaesarDecrypt == Decrypt("caesar", Ok(caesar_decrypt(encrypted.val, key)))

VigenereEncrypt == \E k \in VigenereKeys : Encrypt("vigenere", k, vigenere_encrypt(text, k))

VigenereDecrypt == Decrypt("vigenere", vigenere_decrypt(encrypted.val, key))

SubstitutionEncrypt ==
    \E k \in SubstitutionKeys : Encrypt("substitution", k, substitution_encrypt(text, k))

\* key = generate_substitution_key()
GenerateSubstitutionKey ==
    /\ pc = "start"
    /\ \E randbelow \in RandomDraws :
          key' = generate_substitution_key(random_shuffle(ascii_uppercase, randbelow))
    /\ cipher' = "substitution"
    /\ pc' = "generated"
    /\ UNCHANGED <<text, encrypted, decrypted, primeVars, keygenVars, breakerVars, mathVars, authVars, netVars>>
\* encrypted = substitution_encrypt(text, key) with the key just generated
SubstitutionEncryptGenerated ==
    /\ pc = "generated"
    /\ encrypted' = substitution_encrypt(text, key)
    /\ pc' = IF encrypted'.exc = "" THEN "encrypted" ELSE "raised"
    /\ UNCHANGED <<cipher, text, key, decrypted, primeVars, keygenVars, breakerVars, mathVars, authVars, netVars>>
SubstitutionDecrypt == Decrypt("substitution", substitution_decrypt(encrypted.val, key))

TranspositionEncrypt ==
    \E k \in TranspositionKeys : Encrypt("transposition", k, transposition_encrypt(text, k))

TranspositionDecrypt == Decrypt("transposition", transposition_decrypt(encrypted.val, key))

Next ==
    \/ CaesarEncrypt
    \/ CaesarDecrypt
    \/ VigenereEncrypt
    \/ VigenereDecrypt
    \/ SubstitutionEncrypt
    \/ GenerateSubstitutionKey
    \/ SubstitutionEncryptGenerated
    \/ SubstitutionDecrypt
    \/ TranspositionEncrypt
    \/ TranspositionDecrypt

Spec == Init /\ [][Next]_vars

(***************************************************************************)
(* Properties of the codecs                                                *)
(***************************************************************************)
Returned(r) == r.exc = ""

\* C1: Caesar round trip: for printable-ASCII text and any integer shift k
\* (negative, above 25), decrypting the encryption with k gives the text back,
\* and encrypting with k gives the same as encrypting with k mod 26.
C1_CaesarRoundTrip ==
    (cipher = "caesar" /\ IsPrintableASCII(text)) =>
        /\ pc = "encrypted" => encrypted.val = caesar_encrypt(text, key % 26)
        /\ pc = "decrypted" => decrypted.val = text

C1_Witness ==
    /\ cipher = "caesar" /\ pc = "decrypted"
    /\ key < -26 /\ text = <<65, 122, 53>> /\ encrypted.val # text
    /\ decrypted.val = text

\* C2: Vigenere round trip: for printable-ASCII text and a non-empty key of
\* letters of either case, decrypt returns the text that was encrypted.
C2_VigenereRoundTrip ==
    (cipher = "vigenere" /\ IsPrintableASCII(text) /\ key # <<>>) =>
        /\ pc # "raised"
        /\ pc = "decrypted" => decrypted.val = text

C2_Witness ==
    /\ cipher = "vigenere" /\ pc = "decrypted"
    /\ key = <<98, 90>> /\ text = <<65, 53, 122>> /\ encrypted.val # text
    /\ decrypted.val = text

IsBijection(k) == \A c1, c2 \in DOMAIN k : k[c1] = k[c2] => c1 = c2

\* the lower-case half of the key mirrors the upper-case half
IsMirrored(k) ==
    /\ DOMAIN k = (65..90) \cup (97..122)
    /\ \A c \in 65..90 : k[c] \in 65..90 /\ k[c + 32] = k[c] + 32

\* C3: Substitution round trip: for a key that is a bijection on the 26
\* upper-case letters with its lower-case mirror and printable-ASCII text,
\* decrypt returns the text that was encrypted.
C3_SubstitutionRoundTrip ==
    (cipher = "substitution" /\ IsPrintableASCII(text)
        /\ IsMirrored(key) /\ IsBijection(key)) =>
        /\ pc # "raised"
        /\ pc = "decrypted" => decrypted.val = text

C3_Witness ==
    /\ cipher = "substitution" /\ pc = "decrypted"
    /\ IsBijection(key) /\ key[65] = 67 /\ key[66] = 70
    /\ text = <<65, 53, 122>> /\ encrypted.val # text
    /\ decrypted.val = text

EndsWithX(s) == s # <<>> /\ s[Len(s)] = X

\* C4 as claimed: Transposition round trip: for every printable-ASCII text and
\* every non-empty key (digit string or word), decrypt returns the text that
\* was encrypted.
C4_TranspositionRoundTrip_Claimed ==
    (cipher = "transposition" /\ IsPrintableASCII(text) /\ key # <<>>) =>
        /\ pc # "raised"
        /\ pc = "decrypted" => decrypted.val = text

\* C4 as amended: Transposition round trip for every printable-ASCII text that
\* does not end in the filler 'X' and every non-empty key: decrypt returns the
\* text that was encrypted.
C4_TranspositionRoundTrip ==
    (cipher = "transposition" /\ IsPrintableASCII(text) /\ key # <<>>
        /\ ~EndsWithX(text)) =>
        /\ pc # "raised"
        /\ pc = "decrypted" => decrypted.val = text

C4_Witness ==
    /\ cipher = "transposition" /\ pc = "decrypted"
    /\ key = <<50, 49>> /\ text = <<88, 65, 53>>
    /\ encrypted.val = <<65, 88, 88, 53>>
    /\ decrypted.val = text

(***************************************************************************)
(* is_prime, one witness round per step (each round draws a random base)   *)
(***************************************************************************)
MinN == -2

IsPrimeEnter ==
    /\ pc = "is_prime"
    /\ IF num < 2 THEN prime' = "False" /\ pc' = "returned"
       ELSE IF num = 2 \/ num = 3 THEN prime' = "True" /\ pc' = "returned"
       ELSE IF num % 2 = 0 THEN prime' = "False" /\ pc' = "returned"
       ELSE prime' = prime /\ pc' = "witness"
    /\ UNCHANGED <<num, round, draws, codecVars, keygenVars, breakerVars, mathVars, authVars, netVars>>
IsPrimeRound ==
    /\ pc = "witness"
    /\ \E a \in 2..(num - 2) :              \* random.randrange(2, n - 1)
          /\ draws' = draws + 1
          /\ IF witness_round(num, a)
             THEN /\ round' = round + 1
                  /\ IF round + 1 = DefaultRounds
                     THEN prime' = "True" /\ pc' = "returned"
                     ELSE prime' = prime /\ pc' = "witness"
             ELSE /\ round' = round
                  /\ prime' = "False"
                  /\ pc' = "returned"
    /\ UNCHANGED <<num, codecVars, keygenVars, breakerVars, mathVars, authVars, netVars>>
InitPrime ==
    /\ pc = "is_prime"
    /\ num \in MinN..MaxN
    /\ round = 0 /\ draws = 0 /\ prime = "none"
    /\ NoCodec /\ NoKeygen /\ NoBreaker /\ NoMath /\ NoAuth /\ NoNet

NextPrime == IsPrimeEnter \/ IsPrimeRound

SpecPrime == InitPrime /\ [][NextPrime]_vars

(***************************************************************************)
(* rsa_generate_keypair followed by one encrypt / decrypt exchange         *)
(* (ciphers.py test_rsa)                                                   *)
(***************************************************************************)
MsgChars == {65, 68, 122}                   \* 'A', 'D', 'z'
Messages == SeqsUpTo(MsgChars, MaxMsgLen)

\* generate_prime: draw a candidate and hand it to is_prime
GeneratePrimeDraw ==
    /\ pc = "generate_prime"
    /\ \E r \in 0..(pow2(bits) - 1) :       \* random.getrandbits(bits)
          num' = force_top_and_bottom_bit(r, bits)
    /\ round' = 0 /\ draws' = 0 /\ prime' = "none"
    /\ pc' = "is_prime"
    /\ UNCHANGED <<codecVars, keygenVars, breakerVars, mathVars, authVars, netVars>>
\* generate_prime: return the candidate if is_prime accepted it, else loop
GeneratePrimeCheck ==
    /\ pc = "returned"
    /\ IF prime = "True"
       THEN IF p = 0
            THEN p' = num /\ q' = q /\ pc' = "generate_prime"
            ELSE p' = p /\ q' = num /\ pc' = "make_keys"
       ELSE p' = p /\ q' = q /\ pc' = "generate_prime"
    /\ UNCHANGED <<bits, primeVars, codecVars, breakerVars, mathVars, authVars, netVars>>
RsaMakeKeys ==
    /\ pc = "make_keys"
    /\ LET r == rsa_keypair_from_primes(p, q)
       IN  IF r.exc = ""
           THEN cipher' = "rsa" /\ key' = r.val /\ pc' = "keys"
           ELSE cipher' = cipher /\ key' = key /\ pc' = "raised"
    /\ UNCHANGED <<text, encrypted, decrypted, primeVars, keygenVars, breakerVars, mathVars, authVars, netVars>>
RsaEncrypt ==
    /\ pc = "keys"
    /\ \E message \in Messages :
          /\ text' = message
          /\ encrypted' = Ok(rsa_encrypt(message, key.public_key))
    /\ pc' = "encrypted"
    /\ UNCHANGED <<cipher, key, decrypted, primeVars, keygenVars, breakerVars, mathVars, authVars, netVars>>
RsaDecrypt ==
    /\ pc = "encrypted"
    /\ cipher = "rsa"
    /\ decrypted' = rsa_decrypt(encrypted.val, key.private_key)
    /\ pc' = IF decrypted'.exc = "" THEN "decrypted" ELSE "raised"
    /\ UNCHANGED <<cipher, text, key, encrypted, primeVars, keygenVars, breakerVars, mathVars, authVars, netVars>>
\* no key pair computed yet
NoKeyPair == [public_key |-> <<0, 0>>, private_key |-> <<0, 0>>]

InitKeygen ==
    /\ pc = "generate_prime"
    /\ bits \in 1..MaxBits
    /\ p = 0 /\ q = 0
    /\ cipher = "none" /\ text = <<>> /\ key = NoKeyPair
    /\ encrypted = None /\ decrypted = None
    /\ NoPrime /\ NoBreaker /\ NoMath /\ NoAuth /\ NoNet

NextKeygen ==
    \/ GeneratePrimeDraw
    \/ IsPrimeEnter
    \/ IsPrimeRound
    \/ GeneratePrimeCheck
    \/ RsaMakeKeys
    \/ RsaEncrypt
    \/ RsaDecrypt

SpecKeygen == InitKeygen /\ [][NextKeygen]_vars

(***************************************************************************)
(* Properties of RSA and of the primality test                             *)
(***************************************************************************)
Divides(a, b) == b % a = 0

IsPrimeNumber(m) == m >= 2 /\ \A a \in 2..(m - 1) : ~Divides(a, m)

IsComposite(m) == m >= 4 /\ ~IsPrimeNumber(m)

Coprime(a, b) == \A g \in 2..b : ~(Divides(g, a) /\ Divides(g, b))

\* C5: RSA round trip: for every key pair rsa_generate_keypair can return with
\* modulus above 255 (p and q any two candidates is_prime accepted, drawn
\* independently) and every ASCII text, rsa_decrypt(rsa_encrypt(text, pub), priv)
\* returns the text.
C5_RsaRoundTrip ==
    (cipher = "rsa" /\ pc \in {"decrypted", "raised"} /\ key.public_key[2] > 255) =>
        decrypted = Ok(text)

\* C6: every key pair ((e, n), (d, n')) returned by rsa_generate_keypair has
\* n = n' = p*q, gcd(e, (p-1)(q-1)) = 1 and e*d mod (p-1)(q-1) = 1; e is 65537
\* when that is coprime with (p-1)(q-1), else the smallest odd e >= 3 that is.
C6_KeyPairInvariant ==
    cipher = "rsa" =>
        LET e == key.public_key[1]
            d == key.private_key[1]
            phi == (p - 1) * (q - 1)
        IN  /\ key.public_key[2] = p * q
            /\ key.private_key[2] = p * q
            /\ Coprime(e, phi)
            /\ (e * d) % phi = 1
            /\ IF Coprime(65537, phi) THEN e = 65537
               ELSE /\ e >= 3 /\ e % 2 = 1
                    /\ \A f \in 3..(e - 1) : f % 2 = 1 => ~Coprime(f, phi)
            \* the fallback search itself, on the phi of this key pair
            /\ LET e3 == next_coprime_odd(3, phi)
               IN  /\ e3 >= 3 /\ e3 % 2 = 1 /\ Coprime(e3, phi)
                   /\ \A f \in 3..(e3 - 1) : f % 2 = 1 => ~Coprime(f, phi)

C6_Witness ==
    /\ cipher = "rsa" /\ pc = "keys"
    /\ p = 17 /\ q = 19
    /\ key = [public_key |-> <<65537, 323>>, private_key |-> <<161, 323>>]

\* C7: is_prime never rejects a prime, whatever bases are drawn in the witness
\* rounds, and it returns False for n < 2 and for every even n > 2 without
\* drawing a base.
C7_PrimesAccepted ==
    pc = "returned" =>
        /\ IsPrimeNumber(num) => prime = "True"
        /\ (num < 2 \/ (num > 2 /\ num % 2 = 0)) => (prime = "False" /\ draws = 0)

C7_Witness ==
    /\ pc = "returned" /\ num = 97 /\ IsPrimeNumber(num)
    /\ prime = "True" /\ round = DefaultRounds /\ draws = DefaultRounds

\* C8: is_prime rejects every composite: for composite n it returns False
\* whatever bases the random source yields in the 5 rounds.
C8_CompositesRejected ==
    (pc = "returned" /\ IsComposite(num)) => prime = "False"

(***************************************************************************)
(* The breaker applied to one ciphertext                                   *)
(* (caesar_breaker.py interactive_mode / test_caesar_breaker)              *)
(***************************************************************************)
CipherChars == {32, 49, 76, 104, 233}       \* ' ', '1', 'L', 'h', e-acute
CipherTexts == SeqsUpTo(CipherChars, MaxCipherLen)

\* the ciphertexts of test_caesar_breaker (also the samples of interactive_mode)
encrypted1 == <<75, 72, 79, 79, 82, 32, 90, 82, 85, 79, 71>>     \* "KHOOR ZRUOG"

\* "WKH TXLFN EURZQ IRA MXPSV RYHU WKH ODCB GRJ"
encrypted2 ==
    <<87, 75, 72, 32, 84, 88, 76, 70, 78, 32, 69, 85, 82, 90, 81, 32, 73, 82, 65, 32, 77,
      88, 80, 83, 86, 32, 82, 89, 72, 85, 32, 87, 75, 72, 32, 79, 68, 67, 66, 32, 71, 82, 74>>

\* "JVYUPVU PZ AOL RLF"
encrypted3 == <<74, 86, 89, 85, 80, 86, 85, 32, 80, 90, 32, 65, 79, 76, 32, 82, 76, 70>>

TestCiphertexts == {encrypted1, encrypted2, encrypted3}

Languages == {"english", "french"}

BreakFrequency ==
    /\ pc = "start"
    /\ \E lang \in Languages :
          /\ language' = lang
          /\ break_result' = break_caesar_frequency(text, lang)
    /\ pc' = IF break_result'.exc = "" THEN "frequency" ELSE "raised"
    /\ UNCHANGED <<codecVars, primeVars, keygenVars, mathVars, authVars, netVars>>
BreakAuto ==
    /\ pc = "start"
    /\ break_result' = break_caesar_auto(text)
    /\ language' = IF break_result'.exc = "" THEN break_result'.val.language ELSE language
    /\ pc' = IF break_result'.exc = "" THEN "auto" ELSE "raised"
    /\ UNCHANGED <<codecVars, primeVars, keygenVars, mathVars, authVars, netVars>>
BreakBruteForce ==
    /\ pc = "start"
    /\ break_result' = Ok(break_caesar_brute_force(text))
    /\ pc' = "brute_force"
    /\ UNCHANGED <<language, codecVars, primeVars, keygenVars, mathVars, authVars, netVars>>
DecryptWithShift ==
    /\ pc = "start"
    /\ \E shift \in Shifts :
          /\ key' = shift
          /\ decrypted' = Ok(caesar_decrypt_with_shift(text, shift))
    /\ pc' = "shifted"
    /\ UNCHANGED <<cipher, text, encrypted, language, break_result, primeVars, keygenVars, mathVars, authVars, netVars>>
InitBreaker ==
    /\ pc = "start"
    /\ text \in CipherTexts \cup TestCiphertexts
    /\ cipher = "none" /\ key = 0 /\ encrypted = None /\ decrypted = None
    /\ NoPrime /\ NoKeygen /\ NoBreaker /\ NoMath /\ NoAuth /\ NoNet

NextBreaker == BreakFrequency \/ BreakAuto \/ BreakBruteForce \/ DecryptWithShift

SpecBreaker == InitBreaker /\ [][NextBreaker]_vars

(***************************************************************************)
(* Properties of the breaker                                               *)
(***************************************************************************)
\* C9: break_caesar_brute_force returns exactly 26 (shift, text) pairs with
\* shifts 0..25 ascending, the pair at index s holding caesar_decrypt(text, s)
\* of the codec; caesar_decrypt_with_shift agrees with the codec's
\* caesar_decrypt on every text and shift.
C9_BruteForceExhaustive ==
    /\ pc = "brute_force" =>
          /\ Len(break_result.val) = 26
          /\ \A s \in 0..25 :
                /\ break_result.val[s + 1][1] = s
                /\ break_result.val[s + 1][2] = caesar_decrypt(text, s)
    /\ pc = "shifted" => decrypted.val = caesar_decrypt(text, key)

C9_Witness ==
    /\ pc = "brute_force" /\ text = <<76, 32, 104>>
    /\ Len(break_result.val) = 26
    /\ break_result.val[4] = <<3, <<73, 32, 101>> >>

\* C10: break_caesar_frequency and break_caesar_auto never raise, for every
\* ciphertext (empty, without letters, without tokens); the returned shift is
\* in 0..25 and the confidence in [0, 100], and the confidence is 0 when the
\* winning candidate has no tokens.
C10_BreakNeverFails ==
    /\ pc # "raised"
    /\ pc \in {"frequency", "auto"} =>
          /\ break_result.exc = ""
          /\ break_result.val.shift \in 0..25
          /\ break_result.val.confidence >= 0
          /\ break_result.val.confidence <= 100 * Scale
          /\ str_split(break_result.val.text) = <<>> => break_result.val.confidence = 0

C10_Witness ==
    /\ pc = "auto" /\ text = <<>>
    /\ break_result.val.shift = 0 /\ break_result.val.confidence = 0


\* C11: the known fixtures.  break_caesar_auto("KHOOR ZRUOG") returns shift 3
\* and text "HELLO WORLD"; on "WKH TXLFN EURZQ IRA MXPSV RYHU WKH ODCB GRJ" it
\* returns shift 3 and "THE QUICK BROWN FOX JUMPS OVER THE LAZY DOG"; on
\* "JVYUPVU PZ AOL RLF" it returns shift 7.
C11_KnownFixtures ==
    pc = "auto" =>
        /\ text = encrypted1 =>
              /\ break_result.val.shift = 3
              /\ break_result.val.text = <<72, 69, 76, 76, 79, 32, 87, 79, 82, 76, 68>>
        /\ text = encrypted2 =>
              /\ break_result.val.shift = 3
              /\ break_result.val.text =
                    <<84, 72, 69, 32, 81, 85, 73, 67, 75, 32, 66, 82, 79, 87, 78, 32, 70, 79,
                      88, 32, 74, 85, 77, 80, 83, 32, 79, 86, 69, 82, 32, 84, 72, 69, 32, 76,
                      65, 90, 89, 32, 68, 79, 71>>
        /\ text = encrypted3 => break_result.val.shift = 7


(***************************************************************************)
(* Shape of the letter ciphers' output                                     *)
(***************************************************************************)
\* b has the length of a, the non-letters of a at the same positions, a
\* capital where a has a capital and a small letter where a has a small one
SameShape(a, b) ==
    /\ Len(b) = Len(a)
    /\ \A i \in 1..Len(a) :
          /\ ~isalpha(a[i]) => b[i] = a[i]
          /\ isupper(a[i]) => b[i] \in 65..90
          /\ islower(a[i]) => b[i] \in 97..122

IsValidLetterKey ==
    CASE cipher = "caesar" -> key \in Int
      [] cipher = "vigenere" -> key # <<>> /\ \A i \in 1..Len(key) : isalpha(key[i])
      [] cipher = "substitution" -> IsMirrored(key) /\ IsBijection(key)
      [] OTHER -> FALSE

\* C12: for printable-ASCII text and a valid key, Caesar, Vigenere and
\* substitution encrypt and decrypt return a text of the same length in which
\* every non-alphabetic character stands unchanged at its position, every
\* upper-case letter has become an upper-case letter and every lower-case
\* letter a lower-case letter.
C12_CaseAndPassThrough ==
    (cipher \in {"caesar", "vigenere", "substitution"}
        /\ IsPrintableASCII(text) /\ IsValidLetterKey) =>
        /\ pc # "raised"
        /\ pc \in {"encrypted", "decrypted"} => SameShape(text, encrypted.val)
        /\ pc = "decrypted" => SameShape(encrypted.val, decrypted.val)

C12_Witness ==
    /\ cipher = "vigenere" /\ pc = "decrypted" /\ key = <<98, 90>>
    /\ text = <<122, 53, 65>>
    /\ encrypted.val[1] \in 97..121 /\ encrypted.val[2] = 53 /\ encrypted.val[3] \in 66..90
    /\ SameShape(encrypted.val, decrypted.val)


\* C13: transposition padding: for any key of length >= 1 (digit string or
\* word), the length of transposition_encrypt(text, key) is an exact multiple
\* of the key length.
C13_PaddedToKeyLength ==
    (cipher = "transposition" /\ pc = "encrypted" /\ Len(key) >= 1) =>
        Len(encrypted.val) % Len(key) = 0


\* C14: every key returned by generate_substitution_key, whatever the shuffle
\* drew, maps the 26 upper-case letters one-to-one onto the 26 upper-case
\* letters, and maps each lower-case letter to the lower-case form of the
\* image of its upper-case letter.
C14_GeneratedKeyIsPermutation ==
    pc = "generated" =>
        /\ DOMAIN key = (65..90) \cup (97..122)
        /\ {key[c] : c \in 65..90} = 65..90
        /\ \A c1, c2 \in 65..90 : key[c1] = key[c2] => c1 = c2
        /\ \A c \in 65..90 : key[c + 32] = lower_char(key[c])

C14_Witness ==
    /\ pc = "generated" /\ cipher = "substitution"
    /\ key[65] # 65 /\ key[97] = key[65] + 32
    /\ \E c \in 66..90 : key[c] = 65


\* C15: substitution_decrypt refuses a key that is not one-to-one: whatever the
\* ciphertext, the call fails with a lookup error and never returns a text
\* obtained from an inverse map in which one of two colliding letters was lost.
C15_NonBijectionRejected ==
    (cipher = "substitution" /\ ~IsBijection(key) /\ decrypted # None) =>
        decrypted.exc \in {"KeyError", "IndexError", "LookupError"}


(***************************************************************************)
(* The number-theoretic helpers applied to one pair of arguments           *)
(* (ciphers.py gcd, extended_gcd, mod_inverse)                             *)
(***************************************************************************)
MathArgs == (0..MaxArg) \X (0..MaxArg)

Gcd ==
    /\ pc = "start"
    /\ math_result' = Ok(gcd(math_args[1], math_args[2]))
    /\ pc' = "gcd"
    /\ UNCHANGED <<math_args, codecVars, primeVars, keygenVars, breakerVars, authVars, netVars>>
ExtendedGcd ==
    /\ pc = "start"
    /\ math_result' = Ok(extended_gcd(math_args[1], math_args[2]))
    /\ pc' = "extended_gcd"
    /\ UNCHANGED <<math_args, codecVars, primeVars, keygenVars, breakerVars, authVars, netVars>>
ModInverse ==
    /\ pc = "start"
    /\ math_result' = mod_inverse(math_args[1], math_args[2])
    /\ pc' = IF math_result'.exc = "" THEN "mod_inverse" ELSE "raised"
    /\ UNCHANGED <<math_args, codecVars, primeVars, keygenVars, breakerVars, authVars, netVars>>
InitMath ==
    /\ pc = "start"
    /\ math_args \in MathArgs
    /\ math_result = None
    /\ NoCodec /\ NoPrime /\ NoKeygen /\ NoBreaker /\ NoAuth /\ NoNet

NextMath == Gcd \/ ExtendedGcd \/ ModInverse

SpecMath == InitMath /\ [][NextMath]_vars

\* g is the greatest common divisor of a and b (0 when both are 0)
IsGreatestCommonDivisor(g, a, b) ==
    IF a = 0 /\ b = 0 THEN g = 0
    ELSE /\ g >= 1 /\ Divides(g, a) /\ Divides(g, b)
         /\ \A d \in 1..(a + b) : (Divides(d, a) /\ Divides(d, b)) => d <= g

\* C16: for e >= 1 and phi >= 2, mod_inverse(e, phi) raises exactly when
\* gcd(e, phi) # 1, and otherwise returns d with 0 <= d < phi and
\* e * d mod phi = 1; for all non-negative a and b, extended_gcd(a, b)
\* returns (g, x, y) with g = a*x + b*y and g = gcd(a, b).
C16_ModularInverse ==
    LET a == math_args[1]
        b == math_args[2]
    IN  /\ pc = "gcd" => IsGreatestCommonDivisor(math_result.val, a, b)
        /\ pc = "extended_gcd" =>
              /\ math_result.val[1] = a * math_result.val[2] + b * math_result.val[3]
              /\ IsGreatestCommonDivisor(math_result.val[1], a, b)
              /\ math_result.val[1] = gcd(a, b)
        /\ (pc \in {"mod_inverse", "raised"} /\ a >= 1 /\ b >= 2) =>
              /\ pc = "raised" <=> ~IsGreatestCommonDivisor(1, a, b)
              /\ pc = "raised" => math_result.exc = "ValueError"
              /\ pc = "mod_inverse" =>
                    /\ math_result.val \in 0..(b - 1)
                    /\ (a * math_result.val) % b = 1

C16_Witness ==
    /\ pc = "mod_inverse" /\ math_args = <<7, 12>> /\ math_result.val = 7


(***************************************************************************)
(* Termination of key generation                                           *)
(***************************************************************************)
\* the draw of a candidate that is a prime number
DrawPrimeCandidate == GeneratePrimeDraw /\ IsPrimeNumber(num')

\* one step of rsa_generate_keypair up to its return
KeygenStep ==
    GeneratePrimeDraw \/ IsPrimeEnter \/ IsPrimeRound \/ GeneratePrimeCheck \/ RsaMakeKeys

\* Key generation under a fair random source.  The code runs the step it has
\* reached (weak fairness of the steps, of which one at most is enabled), and
\* the random source does not withhold the prime candidates for ever: where a
\* candidate of the requested length is prime, a prime candidate is drawn
\* again and again.
SpecKeygenFair ==
    /\ InitKeygen /\ [][NextKeygen]_vars
    /\ WF_vars(KeygenStep)
    /\ SF_vars(DrawPrimeCandidate)

\* m is odd and has exactly nbits bits
IsOddWithBits(m, nbits) == m % 2 = 1 /\ pow2(nbits - 1) <= m /\ m < pow2(nbits)

\* every candidate generate_prime has returned is odd and has `bits` bits
ReturnedCandidatesHaveBits ==
    /\ p # 0 => IsOddWithBits(p, bits)
    /\ q # 0 => IsOddWithBits(q, bits)

\* C17 as claimed: for every bit length >= 1, under a fair random source,
\* generate_prime(bits) and rsa_generate_keypair(bits) eventually return, and
\* each returned prime candidate is odd and has exactly `bits` bits.
C17_KeygenTerminates_Claimed ==
    /\ <>(pc = "keys")
    /\ [](ReturnedCandidatesHaveBits)

\* C17, amended: for every bit length >= 2, under a fair random source,
\* generate_prime(bits) and rsa_generate_keypair(bits) eventually return, and
\* each returned prime candidate is odd and has exactly `bits` bits.
C17_KeygenTerminates ==
    /\ <>(bits < 2 \/ pc = "keys")
    /\ [](ReturnedCandidatesHaveBits)

C17_Witness ==
    /\ pc = "keys" /\ bits = 5 /\ p = 19 /\ q = 31
    /\ IsOddWithBits(p, bits) /\ IsOddWithBits(q, bits)


(***************************************************************************)
(* AuthSystem (auth.py)                                                    *)
(*                                                                         *)
(* `users` is the dict held in the users file: load_users reads it and     *)
(* save_users writes it whole.  A bcrypt hash is a record of the salt and  *)
(* of the password it digests: checkpw recomputes the hash with the salt   *)
(* of the stored one and compares.  A (success, message) pair is the       *)
(* record fields success and message; a message is the tuple of its parts. *)
(***************************************************************************)
bcrypt_hashpw(password, salt) == [salt |-> salt, digest |-> password]

bcrypt_checkpw(password, hashed_password) ==
    bcrypt_hashpw(password, hashed_password.salt) = hashed_password

\* users[username] = {...}: the dict with the entry added or replaced
dict_set(d, k, v) == [x \in DOMAIN d \cup {k} |-> IF x = k THEN v ELSE d[x]]

Result(success, message, store) == [success |-> success, message |-> message, users |-> store]

\* a plausible slip: the check for an existing username is missing
register_unchecked(store, username, password, salt, now) ==
    IF username = <<>> \/ password = <<>>
    THEN Result(FALSE, <<"Username and password cannot be empty">>, store)
    ELSE IF Len(username) < 3
    THEN Result(FALSE, <<"Username must be at least 3 characters">>, store)
    ELSE IF Len(password) < 6
    THEN Result(FALSE, <<"Password must be at least 6 characters">>, store)
    ELSE Result(TRUE, <<"Registration successful!">>,
                dict_set(store, username,
                         [password |-> bcrypt_hashpw(password, salt),
                          created_at |-> now,
                          face_registered |-> FALSE]))

\* AuthSystem.register: the returned pair and the users file afterwards
register(store, username, password, salt, now) ==
    IF username = <<>> \/ password = <<>>
    THEN Result(FALSE, <<"Username and password cannot be empty">>, store)
    ELSE IF Len(username) < 3
    THEN Result(FALSE, <<"Username must be at least 3 characters">>, store)
    ELSE IF Len(password) < 6
    THEN Result(FALSE, <<"Password must be at least 6 characters">>, store)
    ELSE IF username \in DOMAIN store
    THEN Result(FALSE, <<"Username already exists">>, store)
    ELSE Result(TRUE, <<"Registration successful!">>,
                dict_set(store, username,
                         [password |-> bcrypt_hashpw(password, salt),
                          created_at |-> now,
                          face_registered |-> FALSE]))

\* a plausible slip: the result of checkpw is not looked at
login_unchecked(store, username, password) ==
    IF username = <<>> \/ password = <<>>
    THEN Result(FALSE, <<"Username and password cannot be empty">>, store)
    ELSE IF username \notin DOMAIN store
    THEN Result(FALSE, <<"Username does not exist">>, store)
    ELSE Result(TRUE, <<"Welcome back, ", username, "!">>, store)

\* AuthSystem.login
login(store, username, password) ==
    IF username = <<>> \/ password = <<>>
    THEN Result(FALSE, <<"Username and password cannot be empty">>, store)
    ELSE IF username \notin DOMAIN store
    THEN Result(FALSE, <<"Username does not exist">>, store)
    ELSE IF bcrypt_checkpw(password, store[username].password)
    THEN Result(TRUE, <<"Welcome back, ", username, "!">>, store)
    ELSE Result(FALSE, <<"Incorrect password">>, store)

\* AuthSystem.login_with_face
login_with_face(store, username) ==
    IF username = <<>>
    THEN Result(FALSE, <<"Username cannot be empty">>, store)
    ELSE IF username \notin DOMAIN store
    THEN Result(FALSE, <<"Username does not exist in database">>, store)
    ELSE Result(TRUE, <<"Welcome back, ", username, "! (Face authenticated)">>, store)

\* AuthSystem.mark_face_registered, through update_user: True and the record
\* updated when the user exists, False and nothing written otherwise
mark_face_registered(store, username) ==
    IF username \in DOMAIN store
    THEN Result(TRUE, <<>>,
                dict_set(store, username, [store[username] EXCEPT !.face_registered = TRUE]))
    ELSE Result(FALSE, <<>>, store)

\* "", "al", "bob", "eve"
Usernames == {<<>>, <<97, 108>>, <<98, 111, 98>>, <<101, 118, 101>>}

\* "", "12345", "123456", "secret"
Passwords ==
    {<<>>, <<49, 50, 51, 52, 53>>, <<49, 50, 51, 52, 53, 54>>, <<115, 101, 99, 114, 101, 116>>}

Call(op, username, password, r) ==
    [op |-> op, username |-> username, password |-> password,
     success |-> r.success, message |-> r.message]

Register ==
    /\ pc = "auth"
    /\ \E username \in Usernames, password \in Passwords, salt \in 1..MaxSalt, now \in 0..MaxClock :
          LET r == register(users, username, password, salt, now)
          IN  /\ users' = r.users
              /\ auth_result' = Call("register", username, password, r)
              /\ registered' = IF r.success THEN dict_set(registered, username, password)
                                ELSE registered
    /\ UNCHANGED <<pc, codecVars, primeVars, keygenVars, breakerVars, mathVars, netVars>>
Login ==
    /\ pc = "auth"
    /\ \E username \in Usernames, password \in Passwords :
          LET r == login(users, username, password)
          IN  /\ users' = r.users
              /\ auth_result' = Call("login", username, password, r)
    /\ UNCHANGED <<pc, registered, codecVars, primeVars, keygenVars, breakerVars, mathVars, netVars>>
LoginWithFace ==
    /\ pc = "auth"
    /\ \E username \in Usernames :
          LET r == login_with_face(users, username)
          IN  /\ users' = r.users
              /\ auth_result' = Call("login_with_face", username, <<>>, r)
    /\ UNCHANGED <<pc, registered, codecVars, primeVars, keygenVars, breakerVars, mathVars, netVars>>
MarkFaceRegistered ==
    /\ pc = "auth"
    /\ \E username \in Usernames :
          LET r == mark_face_registered(users, username)
          IN  /\ users' = r.users
              /\ auth_result' = Call("mark_face_registered", username, <<>>, r)
    /\ UNCHANGED <<pc, registered, codecVars, primeVars, keygenVars, breakerVars, mathVars, netVars>>
InitAuth ==
    /\ pc = "auth"
    /\ NoAuth
    /\ NoCodec /\ NoPrime /\ NoKeygen /\ NoBreaker /\ NoMath /\ NoNet

NextAuth == Register \/ Login \/ LoginWithFace \/ MarkFaceRegistered

SpecAuth == InitAuth /\ [][NextAuth]_vars

(***************************************************************************)
(* Properties of AuthSystem                                                *)
(***************************************************************************)
\* the step is a call of op (the record of the last call is the one of this step)
IsCallOf(op) == auth_result'.op = op

\* C18 as claimed: register(username, any password) with username already in
\* the store returns (False, "Username already exists") and leaves every
\* stored record unchanged; an empty username or password, a username shorter
\* than 3 characters and a password shorter than 6 fail likewise with the
\* store unchanged.
C18_RegisterRejects_Claimed ==
    [][IsCallOf("register") =>
          /\ auth_result'.username \in DOMAIN users =>
                /\ ~auth_result'.success
                /\ auth_result'.message = <<"Username already exists">>
                /\ users' = users
          /\ (Len(auth_result'.username) < 3 \/ Len(auth_result'.password) < 6) =>
                /\ ~auth_result'.success
                /\ users' = users]_vars

\* C18, amended: register(username, password) with username already in the
\* store fails and leaves every stored record unchanged, with the message
\* "Username already exists" when the password has at least 6 characters (a
\* shorter or empty password is reported first); an empty username or
\* password, a username shorter than 3 characters and a password shorter than
\* 6 fail likewise with the store unchanged.
C18_RegisterRejects ==
    [][IsCallOf("register") =>
          /\ auth_result'.username \in DOMAIN users =>
                /\ ~auth_result'.success
                /\ Len(auth_result'.password) >= 6 =>
                      auth_result'.message = <<"Username already exists">>
                /\ users' = users
          /\ (Len(auth_result'.username) < 3 \/ Len(auth_result'.password) < 6) =>
                /\ ~auth_result'.success
                /\ users' = users]_vars

C18_Witness ==
    /\ auth_result.op = "register" /\ auth_result.username = <<98, 111, 98>>
    /\ auth_result.password = <<115, 101, 99, 114, 101, 116>>
    /\ ~auth_result.success /\ auth_result.message = <<"Username already exists">>
    /\ <<98, 111, 98>> \in DOMAIN users
    /\ registered[<<98, 111, 98>>] = <<49, 50, 51, 52, 53, 54>>
    /\ users[<<98, 111, 98>>].face_registered
    /\ <<101, 118, 101>> \in DOMAIN users

\* C19: login(username, password) succeeds exactly when username is in the
\* store and password is the one given in that user's successful register
\* call; a wrong password and an unknown username fail; login never changes
\* the store.
C19_LoginIffRegisteredPassword ==
    [][IsCallOf("login") =>
          /\ auth_result'.success <=>
                /\ auth_result'.username \in DOMAIN users
                /\ auth_result'.password = registered[auth_result'.username]
          /\ users' = users]_vars

C19_Witness ==
    /\ auth_result.op = "login" /\ auth_result.success
    /\ auth_result.username = <<101, 118, 101>>
    /\ auth_result.password = <<115, 101, 99, 114, 101, 116>>
    /\ registered[<<101, 118, 101>>] = <<115, 101, 99, 114, 101, 116>>
    /\ users[<<101, 118, 101>>].password.salt = 2
    /\ <<98, 111, 98>> \in DOMAIN users
    /\ registered[<<98, 111, 98>>] # <<115, 101, 99, 114, 101, 116>>


(***************************************************************************)
(* The choice of the breaker                                               *)
(***************************************************************************)
\* chi-squared score of the candidate of `shift` minus 10 times the number of
\* its dictionary words
CombinedScore(encrypted_text, lang, shift) ==
    LET decrypted_text == caesar_decrypt_with_shift(encrypted_text, shift)
    IN  float_minus_int(calculate_frequency_score(decrypted_text, lang),
                        10 * count_dictionary_words(decrypted_text, lang))

\* best is a shift of least combined score, and the lowest such shift
IsLowestMinimum(scores, best) ==
    /\ best \in 0..25
    /\ \A s \in 0..25 : ~float_less(scores[s], scores[best])
    /\ \A s \in 0..(best - 1) : float_less(scores[best], scores[s])

\* C20: break_caesar_frequency returns the shift of minimum combined score
\* (chi-squared score minus 10 times the dictionary word count), the lowest
\* such shift when several tie; break_caesar_auto returns what
\* break_caesar_frequency returns for detect_language(ciphertext), together
\* with that language.
C20_MinimumCombinedScore ==
    /\ pc \in {"frequency", "auto"} =>
          \A scores \in {[s \in 0..25 |-> CombinedScore(text, language, s)]} :
              IsLowestMinimum(scores, break_result.val.shift)
    /\ pc = "auto" =>
          /\ language = detect_language(text)
          /\ break_result.val.language = language
          /\ \A r \in {break_caesar_frequency(text, language)} :
                /\ r.exc = ""
                /\ break_result.val.text = r.val.text
                /\ break_result.val.shift = r.val.shift
                /\ break_result.val.confidence = r.val.confidence

C20_Witness ==
    /\ pc = "auto" /\ text = encrypted2
    /\ language = "english" /\ break_result.val.shift = 3
    /\ float_less(CombinedScore(text, language, 3), CombinedScore(text, language, 0))


\* C21: the text break_caesar_frequency returns is the candidate of the shift
\* it returns, for every ciphertext, the empty one and those without a letter
\* included: returned text = caesar_decrypt_with_shift(ciphertext, returned shift).
C21_ReturnedTextIsCandidate ==
    pc \in {"frequency", "auto"} =>
        break_result.val.text = caesar_decrypt_with_shift(text, break_result.val.shift)


(***************************************************************************)
(* Transposition: filler and character frame                               *)
(***************************************************************************)
\* s without its whole trailing run of 'X'
WithoutTrailingX(s) ==
    LET n == CHOOSE n \in 0..Len(s) :
                 /\ n = 0 \/ s[n] # X
                 /\ \A i \in (n + 1)..Len(s) : s[i] = X
    IN  SubSeq(s, 1, n)

\* the round trip returns the text without its trailing 'X's, and encrypt
\* appended fewer 'X' than the grid has columns
FillerStripped ==
    /\ pc # "raised"
    /\ pc \in {"encrypted", "decrypted"} =>
          /\ Len(encrypted.val) >= Len(text)
          /\ Len(encrypted.val) - Len(text) < Len(transposition_numeric_key(key))
    /\ pc = "decrypted" =>
          /\ decrypted.val = WithoutTrailingX(text)
          /\ ~EndsWithX(text) => decrypted.val = text
          /\ EndsWithX(text) => Len(decrypted.val) < Len(text)

\* C22 as claimed: for every text and every key, transposition_decrypt of
\* transposition_encrypt returns the text without its whole trailing run of
\* 'X' (the text itself when it does not end in 'X', a shorter text when it
\* does), and encrypt appends fewer 'X' than there are columns.
C22_FillerStripped_Claimed == cipher = "transposition" => FillerStripped


\* C22 as amended: for every text and every non-empty key, transposition_decrypt
\* of transposition_encrypt returns the text without its whole trailing run of
\* 'X' (the text itself when it does not end in 'X', a shorter text when it
\* does), and encrypt appends fewer 'X' than there are columns.
C22_FillerStripped == (cipher = "transposition" /\ key # <<>>) => FillerStripped

C22_Witness ==
    /\ cipher = "transposition" /\ pc = "decrypted"
    /\ key = <<50, 65, 49>> /\ text = <<65, 88, 88>>
    /\ Len(encrypted.val) = 3
    /\ decrypted.val = <<65>>


(***************************************************************************)
(* Vigenere: the key index                                                 *)
(***************************************************************************)
\* the alphabetic characters of s, in order
RECURSIVE LettersOf(_)
LettersOf(s) ==
    IF s = <<>> THEN <<>>
    ELSE (IF isalpha(Head(s)) THEN <<Head(s)>> ELSE <<>>) \o LettersOf(Tail(s))

\* number of alphabetic characters of s before position j
LettersBefore(s, j) == Cardinality({i \in 1..(j - 1) : isalpha(s[i])})

\* offset of the key letter that serves the i-th letter of a text (i from 0)
KeyOffset(k, i) == str_upper(k)[(i % Len(k)) + 1] - 65

\* the letter c moved by `by` places inside its own case
ShiftedLetter(c, by) ==
    IF isupper(c) THEN 65 + ((c - 65 + by) % 26) ELSE 97 + ((c - 97 + by) % 26)

\* every letter of `from` is moved by sign times the offset of the key letter
\* of its rank among the letters
ShiftedByRank(from, to, k, sign) ==
    /\ Len(to) = Len(from)
    /\ \A j \in 1..Len(from) :
          isalpha(from[j]) =>
              to[j] = ShiftedLetter(from[j], sign * KeyOffset(k, LettersBefore(from, j)))

\* C23: in vigenere_encrypt and vigenere_decrypt the i-th alphabetic character
\* of the text (from 0, non-letters skipped) is shifted by the offset of
\* key[i mod len(key)]; so the letters of the output are the output for the
\* letters alone, whatever non-letters stand between them; and key,
\* key.upper() and key.lower() give the same output.
C23_KeyIndexOnLetters ==
    (cipher = "vigenere" /\ key # <<>> /\ \A i \in 1..Len(key) : isalpha(key[i])) =>
        /\ pc # "raised"
        /\ pc \in {"encrypted", "decrypted"} =>
              /\ ShiftedByRank(text, encrypted.val, key, 1)
              /\ vigenere_encrypt(LettersOf(text), key) = Ok(LettersOf(encrypted.val))
              /\ vigenere_encrypt(text, str_upper(key)) = encrypted
              /\ vigenere_encrypt(text, str_lower(key)) = encrypted
        /\ pc = "decrypted" =>
              /\ ShiftedByRank(encrypted.val, decrypted.val, key, -1)
              /\ vigenere_decrypt(LettersOf(encrypted.val), key) = Ok(LettersOf(decrypted.val))
              /\ vigenere_decrypt(encrypted.val, str_upper(key)) = decrypted
              /\ vigenere_decrypt(encrypted.val, str_lower(key)) = decrypted

C23_Witness ==
    /\ cipher = "vigenere" /\ pc = "decrypted" /\ key = <<65, 98>>
    /\ text = <<122, 53, 65>>
    /\ encrypted.val = <<122, 53, 66>>
    /\ decrypted.val[3] = 65


\* number of occurrences of c in s
CountOf(s, c) == Cardinality({i \in 1..Len(s) : s[i] = c})

\* b holds the characters of a, each as often, and besides them only 'X'
SameCharactersPlusFiller(a, b) ==
    /\ Len(b) >= Len(a)
    /\ CountOf(b, X) = CountOf(a, X) + (Len(b) - Len(a))
    /\ \A i \in 1..Len(a) : CountOf(b, a[i]) >= CountOf(a, a[i])
    /\ \A i \in 1..Len(b) : b[i] # X => CountOf(b, b[i]) = CountOf(a, b[i])

\* number of key positions read before position c: those of lower rank, and
\* those of equal rank that stand earlier in the key (the rank of a position
\* follows the order of its character, for a digit key and for a word)
ReadBefore(k, c) ==
    Cardinality({j \in 1..Len(k) : k[j] < k[c] \/ (k[j] = k[c] /\ j < c)})

\* the text padded with 'X' to full rows of len(key) columns, read column by
\* column in ascending rank
ColumnsInRankOrder(txt, k) ==
    LET num_cols == Len(k)
        num_rows == (Len(txt) + num_cols - 1) \div num_cols
        padded == [i \in 1..(num_cols * num_rows) |-> IF i <= Len(txt) THEN txt[i] ELSE X]
    IN  [m \in 1..(num_cols * num_rows) |->
            LET c == CHOOSE c \in 1..num_cols : ReadBefore(k, c) = (m - 1) \div num_rows
            IN  padded[((m - 1) % num_rows) * num_cols + c]]

\* C24: transposition_encrypt alters no character: for every text and every
\* (non-empty) key the ciphertext holds the characters of the text, each as
\* often, followed or interleaved with its 'X' padding only, and the columns of
\* the grid are read in ascending key rank, equal ranks in key-position order.
C24_CharactersCarriedOver ==
    (cipher = "transposition" /\ key # <<>>) =>
        /\ pc # "raised"
        /\ pc \in {"encrypted", "decrypted"} =>
              /\ SameCharactersPlusFiller(text, encrypted.val)
              /\ encrypted.val = ColumnsInRankOrder(text, key)


(***************************************************************************)
(* Message framing (protocol.py send_message / receive_message)            *)
(*                                                                         *)
(* One direction of one open connection.  The text json.dumps makes of a   *)
(* message is an object in braces on one line, in ASCII; it is modelled as *)
(* '{', one character that stands for the members, '}'.  No proper part of *)
(* such a text is the text of a sent message.                              *)
(***************************************************************************)
NewLine == 10
LeftBrace == 123
RightBrace == 125

\* the messages of the scenario: 1 = SUCCESS, 2 = USER_LIST
Payloads == {1, 2}

\* create_message: the JSON text of message m
create_message(m) == <<LeftBrace, 96 + m, RightBrace>>

\* parse_message: the message of a JSON text, None (0) on JSONDecodeError
parse_message(json_string) ==
    IF \E m \in Payloads : json_string = create_message(m)
    THEN CHOOSE m \in Payloads : json_string = create_message(m)
    ELSE 0

\* str.strip(): leading and trailing white space removed
RECURSIVE str_strip(_)
str_strip(s) ==
    IF s = <<>> THEN s
    ELSE IF isspace(Head(s)) THEN str_strip(Tail(s))
    ELSE IF isspace(s[Len(s)]) THEN str_strip(SubSeq(s, 1, Len(s) - 1))
    ELSE s

\* str.split('\n')[0]: the part before the first newline
first_line(s) ==
    IF \E i \in 1..Len(s) : s[i] = NewLine
    THEN SubSeq(s, 1, (CHOOSE i \in 1..Len(s) :
                          s[i] = NewLine /\ \A j \in 1..(i - 1) : s[j] # NewLine) - 1)
    ELSE s

\* receive_message, given the non-empty data one recv returned
receive_message(data) == parse_message(first_line(str_strip(data)))

\* send_message(socket, msg_type, data): the text and its delimiter go out
SendMessage ==
    /\ pc = "connection"
    /\ Len(sent) < MaxSends
    /\ \E m \in Payloads :
          /\ wire' = wire \o create_message(m) \o <<NewLine>>
          /\ sent' = Append(sent, m)
    /\ UNCHANGED <<pc, received, codecVars, primeVars, keygenVars, breakerVars, mathVars,
                   authVars, serverVars, threads>>

\* receive_message(socket): recv returns some first part of what is in
\* flight (the transport decides how much), and one value is returned
ReceiveMessage ==
    /\ pc = "connection"
    /\ wire # <<>>
    /\ \E n \in 1..Len(wire) :
          /\ received' = Append(received, receive_message(SubSeq(wire, 1, n)))
          /\ wire' = SubSeq(wire, n + 1, Len(wire))
    /\ UNCHANGED <<pc, sent, codecVars, primeVars, keygenVars, breakerVars, mathVars,
                   authVars, serverVars, threads>>

InitConnection ==
    /\ pc = "connection"
    /\ NoFraming /\ NoServer /\ threads = <<>>
    /\ NoCodec /\ NoPrime /\ NoKeygen /\ NoBreaker /\ NoMath /\ NoAuth

NextConnection == SendMessage \/ ReceiveMessage

SpecConnection == InitConnection /\ [][NextConnection]_vars

IsPrefixOf(a, b) == Len(a) <= Len(b) /\ SubSeq(b, 1, Len(a)) = a

\* C25: every message passed to send_message is returned by exactly one
\* receive_message call of the peer, in send order: no call returns None
\* while the connection is open, the returned values are the first sent
\* messages in their order, and once nothing is in flight every sent message
\* has been returned.
C25_EveryMessageDelivered ==
    pc = "connection" =>
        /\ \A i \in 1..Len(received) : received[i] # 0
        /\ IsPrefixOf(received, sent)
        /\ wire = <<>> => received = sent


(***************************************************************************)
(* ChatServer (server.py): one handle_client thread per accepted socket    *)
(*                                                                         *)
(* The threads share self.clients without a lock.  A thread is at          *)
(*   "idle"          the connection is not accepted yet                    *)
(*   "receive"       in receive_message at the top of its loop             *)
(*   "login_bind"    in handle_login / handle_face_login, past the test    *)
(*                   "username in self.clients.values()", before           *)
(*                   "self.clients[client_socket] = username"              *)
(*   "message_send"  in handle_message, past the search for the socket of  *)
(*                   the recipient, before send_message                    *)
(*   "cleanup"       at the finally clause                                 *)
(*   "closed"        ended                                                 *)
(* The content of a message (cipher, key, text) and the list of names of a *)
(* USER_LIST message are left out.                                         *)
(***************************************************************************)
Sockets == 1..MaxSockets

Bob == <<98, 111, 98>>
Eve == <<101, 118, 101>>
Secret == <<115, 101, 99, 114, 101, 116>>
Digits == <<49, 50, 51, 52, 53, 54>>

\* the names and passwords clients put in their requests
RequestUsernames == {Bob, Eve}
RequestPasswords == {Secret, Digits}

\* the users file the server starts with: bob registered with "secret"
StoredUsers == register(<<>>, Bob, Secret, 1, 0).users

NoRequest ==
    [type |-> "none", username |-> <<>>, password |-> <<>>, to |-> <<>>, verified |-> FALSE]

\* the requests a client can send; `verified` tells whether the client ran
\* face recognition and recognised the user it names (ChatClient.login_with_face)
Requests ==
    {[NoRequest EXCEPT !.type = t, !.username = u, !.password = pw] :
        t \in {"register", "login"}, u \in RequestUsernames, pw \in RequestPasswords}
    \cup {[NoRequest EXCEPT !.type = "login_face", !.username = u, !.verified = v] :
            u \in RequestUsernames, v \in BOOLEAN}
    \cup {[NoRequest EXCEPT !.type = "message", !.to = u] : u \in RequestUsernames}
    \cup {[NoRequest EXCEPT !.type = t] : t \in {"broadcast", "user_list", "disconnect"}}

\* the locals of handle_client: username (<<>> for None), the request being
\* handled and, in handle_message, recipient_socket (0 for None)
Handler(at, username, req, recipient_socket) ==
    [pc |-> at, username |-> username, req |-> req, recipient_socket |-> recipient_socket]

\* one call of send_message made by the thread of socket `via`
Sent(via, to, type, from, message) ==
    [via |-> via, to |-> to, type |-> type, from |-> from, message |-> message]

\* username in self.clients.values()
IsBound(username) == \E s \in DOMAIN clients : clients[s] = username

\* broadcast_user_list: one USER_LIST message to every socket of `bound`
broadcast_user_list(via, bound) ==
    {Sent(via, s, "user_list", <<>>, <<>>) : s \in DOMAIN bound}

\* del d[k]
dict_del(d, k) == [x \in DOMAIN d \ {k} |-> d[x]]

ServerFrame ==
    UNCHANGED <<pc, codecVars, primeVars, keygenVars, breakerVars, mathVars,
                auth_result, framingVars, threads>>

\* accept_connections: a connection is accepted and its thread started
Accept(s) ==
    /\ handlers[s].pc = "idle"
    /\ handlers' = [handlers EXCEPT ![s] = Handler("receive", <<>>, NoRequest, 0)]
    /\ last_sent' = {}
    /\ UNCHANGED <<users, registered, clients>>
    /\ ServerFrame

\* receive_message returns None (the peer closed, the connection failed, the
\* data did not parse) or a DISCONNECT message arrives: the loop is left
LeaveLoop(s) ==
    /\ handlers[s].pc = "receive"
    /\ handlers' = [handlers EXCEPT ![s].pc = "cleanup"]
    /\ last_sent' = {}
    /\ UNCHANGED <<users, registered, clients>>
    /\ ServerFrame

\* REGISTER: handle_register (the salt and the time of a registration play no
\* part in the server: one salt and one instant stand for all)
HandleRegister(s) ==
    /\ handlers[s].pc = "receive"
    /\ \E req \in Requests :
          /\ req.type = "register"
          /\ LET r == register(users, req.username, req.password, 1, 0)
             IN  /\ users' = r.users
                 /\ registered' = IF r.success
                                   THEN dict_set(registered, req.username, req.password)
                                   ELSE registered
                 /\ last_sent' = {Sent(s, s, IF r.success THEN "success" ELSE "error",
                                       <<>>, r.message)}
    /\ UNCHANGED <<clients, handlers>>
    /\ ServerFrame

\* LOGIN and LOGIN_FACE, first part: the credential check of AuthSystem and
\* the test "username in self.clients.values()"
HandleLoginCheck(s) ==
    /\ handlers[s].pc = "receive"
    /\ \E req \in Requests :
          /\ req.type \in {"login", "login_face"}
          /\ LET r == IF req.type = "login" THEN login(users, req.username, req.password)
                      ELSE login_with_face(users, req.username)
             IN  IF ~r.success
                 THEN /\ last_sent' = {Sent(s, s, "error", <<>>, r.message)}
                      /\ handlers' = [handlers EXCEPT ![s] = Handler("receive", <<>>, NoRequest, 0)]
                 ELSE IF IsBound(req.username)
                 THEN /\ last_sent' = {Sent(s, s, "error", <<>>, <<"User already logged in">>)}
                      /\ handlers' = [handlers EXCEPT ![s] = Handler("receive", <<>>, NoRequest, 0)]
                 ELSE /\ last_sent' = {}
                      /\ handlers' = [handlers EXCEPT ![s] =
                                        Handler("login_bind", handlers[s].username, req, 0)]
    /\ UNCHANGED <<users, registered, clients>>
    /\ ServerFrame

\* LOGIN and LOGIN_FACE, second part: the socket is bound, SUCCESS and the
\* user lists are sent, and the name is returned into `username`
\* (handle_face_login sends the list to the new socket a second time, which
\* the set last_sent does not tell apart)
HandleLoginBind(s) ==
    /\ handlers[s].pc = "login_bind"
    /\ LET req == handlers[s].req
           bound == dict_set(clients, s, req.username)
       IN  /\ clients' = bound
           /\ last_sent' = {Sent(s, s, "success", <<>>,
                                 IF req.type = "login"
                                 THEN <<"Welcome back, ", req.username, "!">>
                                 ELSE <<"Welcome back, ", req.username, "! (Face authenticated)">>)}
                           \cup broadcast_user_list(s, bound)
           /\ handlers' = [handlers EXCEPT ![s] = Handler("receive", req.username, NoRequest, 0)]
    /\ UNCHANGED <<users, registered>>
    /\ ServerFrame

\* MESSAGE, first part: "Not logged in" without a login; else the search of
\* self.clients for the socket of the recipient, and the error when there is none
HandleMessageLookup(s) ==
    /\ handlers[s].pc = "receive"
    /\ \E req \in Requests :
          /\ req.type = "message"
          /\ IF handlers[s].username = <<>>
             THEN /\ last_sent' = {Sent(s, s, "error", <<>>, <<"Not logged in">>)}
                  /\ UNCHANGED handlers
             ELSE IF ~IsBound(req.to)
             THEN /\ last_sent' = {Sent(s, s, "error", <<>>,
                                        <<"User ", req.to, " not found or offline">>)}
                  /\ UNCHANGED handlers
             ELSE \E recipient_socket \in DOMAIN clients :
                      /\ clients[recipient_socket] = req.to
                      /\ last_sent' = {}
                      /\ handlers' = [handlers EXCEPT ![s] =
                                        Handler("message_send", handlers[s].username, req,
                                                recipient_socket)]
    /\ UNCHANGED <<users, registered, clients>>
    /\ ServerFrame

\* MESSAGE, second part: the message is forwarded to recipient_socket
HandleMessageSend(s) ==
    /\ handlers[s].pc = "message_send"
    /\ last_sent' = {Sent(s, handlers[s].recipient_socket, "message", handlers[s].username, <<>>)}
    /\ handlers' = [handlers EXCEPT ![s] = Handler("receive", handlers[s].username, NoRequest, 0)]
    /\ UNCHANGED <<users, registered, clients>>
    /\ ServerFrame


\* BROADCAST: handle_broadcast when the thread holds a login, nothing otherwise
HandleBroadcast(s) ==
    /\ handlers[s].pc = "receive"
    /\ last_sent' = IF handlers[s].username = <<>> THEN {}
                    ELSE {Sent(s, client_socket, "broadcast", handlers[s].username, <<>>) :
                            client_socket \in DOMAIN clients \ {s}}
    /\ UNCHANGED <<users, registered, clients, handlers>>
    /\ ServerFrame

\* USER_LIST: send_user_list
HandleUserList(s) ==
    /\ handlers[s].pc = "receive"
    /\ last_sent' = {Sent(s, s, "user_list", <<>>, <<>>)}
    /\ UNCHANGED <<users, registered, clients, handlers>>
    /\ ServerFrame

\* the finally clause of handle_client: "if username and client_socket in
\* self.clients" the socket is removed and the user lists are sent; the
\* socket is closed
Cleanup(s) ==
    /\ handlers[s].pc = "cleanup"
    /\ IF handlers[s].username # <<>> /\ s \in DOMAIN clients
       THEN /\ clients' = dict_del(clients, s)
            /\ last_sent' = broadcast_user_list(s, dict_del(clients, s))
       ELSE /\ clients' = clients
            /\ last_sent' = {}
    /\ handlers' = [handlers EXCEPT ![s].pc = "closed"]
    /\ UNCHANGED <<users, registered>>
    /\ ServerFrame

InitServer ==
    /\ pc = "server"
    /\ clients = <<>>
    /\ handlers = [s \in Sockets |-> Handler("idle", <<>>, NoRequest, 0)]
    /\ last_sent = {}
    /\ users = StoredUsers
    /\ registered = dict_set(<<>>, Bob, Secret)
    /\ auth_result = NoCall
    /\ NoFraming /\ threads = <<>>
    /\ NoCodec /\ NoPrime /\ NoKeygen /\ NoBreaker /\ NoMath

NextServer ==
    \E s \in Sockets :
        \/ Accept(s)
        \/ LeaveLoop(s)
        \/ HandleRegister(s)
        \/ HandleLoginCheck(s)
        \/ HandleLoginBind(s)
        \/ HandleMessageLookup(s)
        \/ HandleMessageSend(s)
        \/ HandleBroadcast(s)
        \/ HandleUserList(s)
        \/ Cleanup(s)

SpecServer == InitServer /\ [][NextServer]_vars


(***************************************************************************)
(* Properties of ChatServer                                                *)
(***************************************************************************)
\* C26: in every reachable state of ChatServer no username is bound to more
\* than one client socket in `clients`, whatever the interleaving of the
\* handler threads that process LOGIN and LOGIN_FACE requests.
C26_NoDoubleLogin ==
    pc = "server" =>
        \A s1, s2 \in DOMAIN clients : clients[s1] = clients[s2] => s1 = s2


\* C27: whenever a client handler thread has ended (DISCONNECT, closed or
\* failed connection), after any sequence of register, login and message
\* requests on the connection, a failed login after a successful one
\* included, the socket of the client is no longer in ChatServer.clients.
C27_SessionCleanup ==
    pc = "server" =>
        \A s \in Sockets : handlers[s].pc = "closed" => s \notin DOMAIN clients


\* the step binds socket s: it puts s into clients or sets its username
Binds(s) ==
    /\ s \in DOMAIN clients'
    /\ \/ s \notin DOMAIN clients
       \/ clients'[s] # clients[s]
       \/ handlers[s].pc = "login_bind" /\ handlers'[s].pc = "receive"

\* the request thread s is handling carries a verified credential of u: the
\* password u was registered with, or a face recognition of u done by the client
CredentialVerified(s, u) ==
    LET req == handlers[s].req
    IN  /\ req.username = u
        /\ \/ req.type = "login" /\ u \in DOMAIN registered /\ req.password = registered[u]
           \/ req.type = "login_face" /\ req.verified

\* C28: the server binds a socket to username u only after a credential for
\* u was verified: auth.login(u, password) succeeded with the password of u,
\* or, for LOGIN_FACE, face recognition had verified the identity of u; a
\* client that only knows a registered username does not become logged in.
C28_AuthenticatedBinding ==
    [][\A s \in Sockets : Binds(s) => CredentialVerified(s, clients'[s])]_vars


\* send_message on the socket of an ended thread fails: socket.send raises on
\* the closed socket and nothing is transmitted
Transmitted(m) == handlers[m.to].pc # "closed"

\* the MESSAGE and BROADCAST messages the step forwards
Forwarded ==
    {m \in last_sent' : m.type \in {"message", "broadcast"} /\ Transmitted(m)}

\* a forward is made only by a thread that holds a successful login
ForwardedWithLogin == \A m \in Forwarded : handlers[m.via].username # <<>>

\* "from" is the username bound to the sending socket
FromIsSender ==
    \A m \in Forwarded : m.via \in DOMAIN clients /\ m.from = clients[m.via]

\* a private message goes to a socket bound to the recipient the request names
ToIsRecipient ==
    \A m \in Forwarded :
        m.type = "message" =>
            m.to \in DOMAIN clients /\ clients[m.to] = handlers[m.via].req.to

\* the error "User ... not found or offline" is sent to the sender, and only
\* when no socket is bound to the recipient
NotFoundOnlyWhenUnbound ==
    \A m \in last_sent' :
        (/\ m.type = "error"
         /\ Len(m.message) = 3
         /\ m.message[1] = "User "
         /\ m.message[3] = " not found or offline")
            => m.to = m.via /\ ~IsBound(m.message[2])

\* a broadcast does not come back to the sending socket
NotBackToSender == \A m \in Forwarded : m.type = "broadcast" => m.to # m.via

\* C29: the server forwards a MESSAGE or BROADCAST only when the handler of
\* the sending socket holds a successful login, the forwarded "from" equals
\* the username bound to the sending socket in `clients`, a private message
\* is sent only to the socket bound to the named recipient (or an error to
\* the sender when no such socket exists), and a broadcast is never sent
\* back to the sending socket.
C29_SenderIdentity ==
    [][pc = "server" =>
          /\ ForwardedWithLogin
          /\ FromIsSender
          /\ ToIsRecipient
          /\ NotFoundOnlyWhenUnbound
          /\ NotBackToSender]_vars


(***************************************************************************)
(* AuthSystem called by several threads                                    *)
(*                                                                         *)
(* Every handle_client thread of the server calls the one AuthSystem, and  *)
(* no lock guards the users file.  register and update_user read the whole *)
(* file into a local dict (load_users), change the dict and write the      *)
(* whole dict back (save_users); a thread is at "register_loaded" or       *)
(* "update_loaded" between its read and its write.  A read and a write of  *)
(* the file are each one step.  login only reads.                          *)
(***************************************************************************)
Threads == 1..MaxThreads

\* "12345" is too short for a password
ShortPassword == <<49, 50, 51, 52, 53>>

StoreUsernames == {Bob, Eve}
StorePasswords == {Secret, ShortPassword}

\* the locals of a call in progress: the arguments and the dict load_users returned
Thread(at, username, password, loaded) ==
    [pc |-> at, username |-> username, password |-> password, users |-> loaded]

IdleThread == Thread("idle", <<>>, <<>>, <<>>)

StoreFrame ==
    UNCHANGED <<pc, codecVars, primeVars, keygenVars, breakerVars, mathVars,
                framingVars, serverVars>>

\* register up to load_users: the validation checks fail and the call
\* returns, or the file is read
RegisterLoad(t) ==
    /\ threads[t].pc = "idle"
    /\ \E username \in StoreUsernames, password \in StorePasswords :
          LET validation == register(<<>>, username, password, 1, 0)
          IN  IF ~validation.success
              THEN /\ auth_result' = Call("register", username, password, validation)
                   /\ UNCHANGED threads
              ELSE /\ threads' = [threads EXCEPT ![t] =
                                    Thread("register_loaded", username, password, users)]
                   /\ UNCHANGED auth_result
    /\ UNCHANGED <<users, registered>>
    /\ StoreFrame

\* register after load_users: "Username already exists" when the name is in
\* the loaded dict, else the record is added and the loaded dict is written
RegisterSave(t) ==
    /\ threads[t].pc = "register_loaded"
    /\ LET call == threads[t]
           r == register(call.users, call.username, call.password, 1, 0)
       IN  /\ users' = IF r.success THEN r.users ELSE users
           /\ registered' = IF r.success
                             THEN dict_set(registered, call.username, call.password)
                             ELSE registered
           /\ auth_result' = Call("register", call.username, call.password, r)
    /\ threads' = [threads EXCEPT ![t] = IdleThread]
    /\ StoreFrame

\* login: one read of the file
StoreLogin(t) ==
    /\ threads[t].pc = "idle"
    /\ \E username \in StoreUsernames, password \in StorePasswords :
          auth_result' = Call("login", username, password, login(users, username, password))
    /\ UNCHANGED <<users, registered, threads>>
    /\ StoreFrame

\* update_user up to load_users (mark_face_registered, the one caller)
UpdateLoad(t) ==
    /\ threads[t].pc = "idle"
    /\ \E username \in StoreUsernames :
          threads' = [threads EXCEPT ![t] = Thread("update_loaded", username, <<>>, users)]
    /\ UNCHANGED <<users, registered, auth_result>>
    /\ StoreFrame

\* update_user after load_users: the record of the loaded dict is updated and
\* the loaded dict is written, or False is returned and nothing is written
UpdateSave(t) ==
    /\ threads[t].pc = "update_loaded"
    /\ LET call == threads[t]
           r == mark_face_registered(call.users, call.username)
       IN  /\ users' = IF r.success THEN r.users ELSE users
           /\ auth_result' = Call("mark_face_registered", call.username, <<>>, r)
    /\ threads' = [threads EXCEPT ![t] = IdleThread]
    /\ UNCHANGED registered
    /\ StoreFrame

InitStore ==
    /\ pc = "store"
    /\ NoAuth
    /\ threads = [t \in Threads |-> IdleThread]
    /\ NoFraming /\ NoServer
    /\ NoCodec /\ NoPrime /\ NoKeygen /\ NoBreaker /\ NoMath

NextStore ==
    \E t \in Threads :
        \/ RegisterLoad(t)
        \/ RegisterSave(t)
        \/ StoreLogin(t)
        \/ UpdateLoad(t)
        \/ UpdateSave(t)

SpecStore == InitStore /\ [][NextStore]_vars


\* C30: once register(u, p) has returned success, u stays in the user store
\* and every later login(u, p) succeeds, for any interleaving of the
\* register, login and update_user calls of the other threads.
C30_RegistrationsDurable ==
    pc = "store" =>
        \A u \in DOMAIN registered :
            /\ u \in DOMAIN users
            /\ login(users, u, registered[u]).success

====
